---- MODULE Spec2Model ----
(***************************************************************************)
(* photo_cull: the culling pipeline of xururu13/photo_pipe; photo_export:  *)
(* process_folder of its uploader.                                         *)
(*                                                                         *)
(* Numbers.  The 0-1 float scores of PhotoInfo are fixed-point integers    *)
(* in units of 1/ScoreUnit, the weights and rating thresholds of config.py *)
(* are in hundredths, so a composite score is in units of                  *)
(* 1/(100*ScoreUnit).  Every arithmetic step of the code on the values     *)
(* used here is exact in these units.  Raw sharpness, brightness and       *)
(* timestamps are integers.                                                *)
(***************************************************************************)
EXTENDS Integers, Sequences, FiniteSets, TLC

VARIABLES
    photos,     \* the list of PhotoInfo records
    pre,        \* photos as they were before the last operation
    ai_mode,    \* ai_mode of the last rating call; ai_cull of a process_folder run
    pc,         \* the position of the run
    idx,        \* process_folder: the photo the analysis loop is at
    dry_run,    \* process_folder: the dry_run argument
    sidecars,   \* the content of <stem>.xmp, per stem
    written,    \* the count write_all_xmp returned
    log,        \* process_folder: the calls made so far, in order
    decoded,    \* process_folder: per analysed photo, whether load_image gave an image
    failed,     \* process_folder: per photo analysed with AI, whether the call failed
    reply,      \* analyze_photo_ai alone: what the call to the endpoint gave
    _face_mesh, \* faces.py: the module global _face_mesh
    _init_failed, \* faces.py: the module global _init_failed
    mediapipe,  \* whether FaceMesh can be constructed in this process
    folder,     \* what each photo's file holds; the files of the folder
    uploaded_log, \* the uploader: the paths in the upload log
    skip_existing, \* the uploader: the skip_existing argument of the last call
    returned    \* the uploader: what the last call of process_folder returned

vars == <<photos, pre, ai_mode, pc, idx, dry_run, sidecars, written, log, decoded, failed, reply,
          _face_mesh, _init_failed, mediapipe, folder, uploaded_log, skip_existing, returned>>

\* what the operations on a list of records alone never touch
run == <<idx, dry_run, sidecars, written, log, decoded, failed, reply,
         _face_mesh, _init_failed, mediapipe, folder, uploaded_log, skip_existing, returned>>

\* _face_mesh = None
NoMesh == <<>>

\* the object mp.solutions.face_mesh.FaceMesh(...) gives
FaceMesh == <<"FaceMesh">>

\* no call to the endpoint
NoReply == [kind |-> "none", data |-> <<>>]

\* ---------------------------------------------------------------- config.py

SHARPNESS_TERRIBLE == 50
SHARPNESS_LOW == 200
SHARPNESS_HIGH == 800

BRIGHTNESS_IDEAL_LOW == 100
BRIGHTNESS_IDEAL_HIGH == 180

EAR_CLOSED_THRESHOLD == 20

DHASH_SIZE == 8
DHASH_THRESHOLD == 10

SERIES_GAP_SECONDS == 3

\* weights, in hundredths
WEIGHT_SHARPNESS == 35
WEIGHT_EXPOSURE == 20
WEIGHT_FACES == 25
WEIGHT_UNIQUENESS == 10
WEIGHT_SERIES == 10

AI_WEIGHT_SHARPNESS == 25
AI_WEIGHT_EXPOSURE == 15
AI_WEIGHT_FACES == 20
AI_WEIGHT_COMPOSITION == 20
AI_WEIGHT_UNIQUENESS == 10
AI_WEIGHT_SERIES == 10

\* rating thresholds, in hundredths
RATING_THRESHOLD_2 == 35
RATING_THRESHOLD_3 == 55
RATING_THRESHOLD_4 == 80
HARD_RULE_5_MIN_SCORE == 85

\* one unit of a 0-1 score: the common denominator of normalize_sharpness
ScoreUnit == 2 * (SHARPNESS_HIGH - SHARPNESS_LOW)

\* a float literal given in hundredths, as a score
Score(hundredths) == (hundredths * ScoreUnit) \div 100

FACES_NEUTRAL_SCORE == Score(70)

\* timestamp of a photo without EXIF DateTimeOriginal
None == -1

\* A dhash is modelled by the integer int(dhash, 16) its hex digits spell,
\* and that integer by the set of the positions of its 1 bits, in a
\* one-element sequence; the empty string of a photo without hash is the
\* empty sequence.
NoHash == <<>>

Hash(bits) == <<bits>>

\* rating_reason: the text of the rule and, for the soft bands, the
\* formatted score, the comparison and the threshold
Reason(text, score, op, thr) == [text |-> text, score |-> score, op |-> op, thr |-> thr]

HardReason(text) == Reason(text, 0, "", 0)

NoReason == HardReason("")

\* PhotoInfo whose rating starts at 0, the value of an unrated photo in XMP
PhotoInfoUnrated(stem) ==
    [ stem |-> stem,
      sharpness |-> 0,
      brightness |-> 0,
      exposure_score |-> 0,
      sharpness_score |-> 0,
      face_count |-> 0,
      eyes_open_ratio |-> 0,
      all_eyes_closed |-> FALSE,
      face_score |-> FACES_NEUTRAL_SCORE,
      dhash |-> NoHash,
      duplicate_group |-> -1,
      is_worst_duplicate |-> FALSE,
      uniqueness_score |-> Score(100),
      timestamp |-> None,
      series_group |-> -1,
      is_best_in_series |-> FALSE,
      series_score |-> Score(50),
      ai_score |-> 0,
      composite_score |-> 0,
      rating |-> 0,
      rating_reason |-> NoReason ]

\* PhotoInfo(path=..., stem=stem) with every other field at its default
PhotoInfo(stem) ==
    [ stem |-> stem,
      sharpness |-> 0,
      brightness |-> 0,
      exposure_score |-> 0,
      sharpness_score |-> 0,
      face_count |-> 0,
      eyes_open_ratio |-> 0,
      all_eyes_closed |-> FALSE,
      face_score |-> FACES_NEUTRAL_SCORE,
      dhash |-> NoHash,
      duplicate_group |-> -1,
      is_worst_duplicate |-> FALSE,
      uniqueness_score |-> Score(100),
      timestamp |-> None,
      series_group |-> -1,
      is_best_in_series |-> FALSE,
      series_score |-> Score(50),
      ai_score |-> 0,
      composite_score |-> 0,
      rating |-> 3,
      rating_reason |-> NoReason ]

\* ---------------------------------------------------------------- rating.py

compute_composite_score(photo) ==
      WEIGHT_SHARPNESS * photo.sharpness_score
    + WEIGHT_EXPOSURE * photo.exposure_score
    + WEIGHT_FACES * photo.face_score
    + WEIGHT_UNIQUENESS * photo.uniqueness_score
    + WEIGHT_SERIES * photo.series_score

compute_composite_score_ai(photo) ==
      AI_WEIGHT_SHARPNESS * photo.sharpness_score
    + AI_WEIGHT_EXPOSURE * photo.exposure_score
    + AI_WEIGHT_FACES * photo.face_score
    + AI_WEIGHT_COMPOSITION * photo.ai_score
    + AI_WEIGHT_UNIQUENESS * photo.uniqueness_score
    + AI_WEIGHT_SERIES * photo.series_score

\* f"{score:.2f}": the composite score rounded to hundredths
Fmt2(score) == (score + ScoreUnit \div 2) \div ScoreUnit

\* the soft rules with <= in place of <
SoftBandsLax(score) ==
    IF score <= RATING_THRESHOLD_2 * ScoreUnit
    THEN [rating |-> 2, rating_reason |-> Reason("soft: score", Fmt2(score), "<", RATING_THRESHOLD_2)]
    ELSE IF score <= RATING_THRESHOLD_3 * ScoreUnit
    THEN [rating |-> 3, rating_reason |-> Reason("soft: score", Fmt2(score), "<", RATING_THRESHOLD_3)]
    ELSE IF score <= RATING_THRESHOLD_4 * ScoreUnit
    THEN [rating |-> 4, rating_reason |-> Reason("soft: score", Fmt2(score), "<", RATING_THRESHOLD_4)]
    ELSE [rating |-> 5, rating_reason |-> Reason("soft: score", Fmt2(score), ">=", RATING_THRESHOLD_4)]

\* the soft rules with the bands numbered from 1
SoftBandsFromOne(score) ==
    IF score < RATING_THRESHOLD_2 * ScoreUnit
    THEN [rating |-> 1, rating_reason |-> Reason("soft: score", Fmt2(score), "<", RATING_THRESHOLD_2)]
    ELSE IF score < RATING_THRESHOLD_3 * ScoreUnit
    THEN [rating |-> 2, rating_reason |-> Reason("soft: score", Fmt2(score), "<", RATING_THRESHOLD_3)]
    ELSE IF score < RATING_THRESHOLD_4 * ScoreUnit
    THEN [rating |-> 3, rating_reason |-> Reason("soft: score", Fmt2(score), "<", RATING_THRESHOLD_4)]
    ELSE [rating |-> 4, rating_reason |-> Reason("soft: score", Fmt2(score), ">=", RATING_THRESHOLD_4)]

\* the soft rules of apply_rating, on the fresh composite score
SoftBands(score) ==
    IF score < RATING_THRESHOLD_2 * ScoreUnit
    THEN [rating |-> 2, rating_reason |-> Reason("soft: score", Fmt2(score), "<", RATING_THRESHOLD_2)]
    ELSE IF score < RATING_THRESHOLD_3 * ScoreUnit
    THEN [rating |-> 3, rating_reason |-> Reason("soft: score", Fmt2(score), "<", RATING_THRESHOLD_3)]
    ELSE IF score < RATING_THRESHOLD_4 * ScoreUnit
    THEN [rating |-> 4, rating_reason |-> Reason("soft: score", Fmt2(score), "<", RATING_THRESHOLD_4)]
    ELSE [rating |-> 5, rating_reason |-> Reason("soft: score", Fmt2(score), ">=", RATING_THRESHOLD_4)]

\* apply_rating without its first assignment: composite_score is read as it was
RecomputeSkipped(photo, ai) == photo

\* the first assignment of apply_rating: composite_score under the mode's weights
Recompute(photo, ai) ==
    [photo EXCEPT !.composite_score =
        IF ai THEN compute_composite_score_ai(photo) ELSE compute_composite_score(photo)]

\* the rules of apply_rating with the rating-5 rule tried before the worst-duplicate rule
DecideFiveBeforeDuplicate(p, ai) ==
    IF p.sharpness < SHARPNESS_TERRIBLE
    THEN [p EXCEPT !.rating = 1, !.rating_reason = HardReason("hard: low sharpness")]
    ELSE IF p.all_eyes_closed /\ ~ai
    THEN [p EXCEPT !.rating = 1, !.rating_reason = HardReason("hard: all eyes closed")]
    ELSE IF /\ p.is_best_in_series
            /\ p.face_count > 0
            /\ ~p.all_eyes_closed
            /\ p.composite_score >= HARD_RULE_5_MIN_SCORE * ScoreUnit
    THEN [p EXCEPT !.rating = 5,
                   !.rating_reason = HardReason("hard: best in series + faces + eyes open + high score")]
    ELSE IF p.is_worst_duplicate
    THEN [p EXCEPT !.rating = 1, !.rating_reason = HardReason("hard: worst duplicate")]
    ELSE [p EXCEPT !.rating = SoftBands(p.composite_score).rating,
                   !.rating_reason = SoftBands(p.composite_score).rating_reason]

\* the rules of apply_rating with the eyes-closed rule applied in both modes
DecideEyesInBothModes(p, ai) ==
    IF p.sharpness < SHARPNESS_TERRIBLE
    THEN [p EXCEPT !.rating = 1, !.rating_reason = HardReason("hard: low sharpness")]
    ELSE IF p.all_eyes_closed
    THEN [p EXCEPT !.rating = 1, !.rating_reason = HardReason("hard: all eyes closed")]
    ELSE IF p.is_worst_duplicate
    THEN [p EXCEPT !.rating = 1, !.rating_reason = HardReason("hard: worst duplicate")]
    ELSE IF /\ p.is_best_in_series
            /\ p.face_count > 0
            /\ ~p.all_eyes_closed
            /\ p.composite_score >= HARD_RULE_5_MIN_SCORE * ScoreUnit
    THEN [p EXCEPT !.rating = 5,
                   !.rating_reason = HardReason("hard: best in series + faces + eyes open + high score")]
    ELSE [p EXCEPT !.rating = SoftBands(p.composite_score).rating,
                   !.rating_reason = SoftBands(p.composite_score).rating_reason]

\* the rules of apply_rating with the rating-5 rule reading the threshold of
\* rating 3 for its minimum score
DecideFiveFromThree(p, ai) ==
    IF p.sharpness < SHARPNESS_TERRIBLE
    THEN [p EXCEPT !.rating = 1, !.rating_reason = HardReason("hard: low sharpness")]
    ELSE IF p.all_eyes_closed /\ ~ai
    THEN [p EXCEPT !.rating = 1, !.rating_reason = HardReason("hard: all eyes closed")]
    ELSE IF p.is_worst_duplicate
    THEN [p EXCEPT !.rating = 1, !.rating_reason = HardReason("hard: worst duplicate")]
    ELSE IF /\ p.is_best_in_series
            /\ p.face_count > 0
            /\ ~p.all_eyes_closed
            /\ p.composite_score >= RATING_THRESHOLD_3 * ScoreUnit
    THEN [p EXCEPT !.rating = 5,
                   !.rating_reason = HardReason("hard: best in series + faces + eyes open + high score")]
    ELSE [p EXCEPT !.rating = SoftBands(p.composite_score).rating,
                   !.rating_reason = SoftBands(p.composite_score).rating_reason]

\* Decide whose rule 1 spares a record that was never analysed
DecideSparesUnanalysed(p, ai) ==
    IF 0 < p.sharpness /\ p.sharpness < SHARPNESS_TERRIBLE
    THEN [p EXCEPT !.rating = 1, !.rating_reason = HardReason("hard: low sharpness")]
    ELSE IF p.all_eyes_closed /\ ~ai
    THEN [p EXCEPT !.rating = 1, !.rating_reason = HardReason("hard: all eyes closed")]
    ELSE IF p.is_worst_duplicate
    THEN [p EXCEPT !.rating = 1, !.rating_reason = HardReason("hard: worst duplicate")]
    ELSE IF /\ p.is_best_in_series
            /\ p.face_count > 0
            /\ ~p.all_eyes_closed
            /\ p.composite_score >= HARD_RULE_5_MIN_SCORE * ScoreUnit
    THEN [p EXCEPT !.rating = 5,
                   !.rating_reason = HardReason("hard: best in series + faces + eyes open + high score")]
    ELSE [p EXCEPT !.rating = SoftBands(p.composite_score).rating,
                   !.rating_reason = SoftBands(p.composite_score).rating_reason]

\* the rules of apply_rating on a record whose composite_score is already set
Decide(p, ai) ==
    IF p.sharpness < SHARPNESS_TERRIBLE
    THEN [p EXCEPT !.rating = 1, !.rating_reason = HardReason("hard: low sharpness")]
    ELSE IF p.all_eyes_closed /\ ~ai
    THEN [p EXCEPT !.rating = 1, !.rating_reason = HardReason("hard: all eyes closed")]
    ELSE IF p.is_worst_duplicate
    THEN [p EXCEPT !.rating = 1, !.rating_reason = HardReason("hard: worst duplicate")]
    ELSE IF /\ p.is_best_in_series
            /\ p.face_count > 0
            /\ ~p.all_eyes_closed
            /\ p.composite_score >= HARD_RULE_5_MIN_SCORE * ScoreUnit
    THEN [p EXCEPT !.rating = 5,
                   !.rating_reason = HardReason("hard: best in series + faces + eyes open + high score")]
    ELSE [p EXCEPT !.rating = SoftBands(p.composite_score).rating,
                   !.rating_reason = SoftBands(p.composite_score).rating_reason]

apply_rating(photo, ai) == Decide(Recompute(photo, ai), ai)

\* rate_photos: apply_rating on every photo of the list
rate_photos(ps, ai) == [k \in 1..Len(ps) |-> apply_rating(ps[k], ai)]

\* ------------------------------------------------- the rating engine alone

Stems == <<"a", "b", "c", "d", "e", "f">>

\* no file <stem>.xmp
NoFile == [rating |-> 0]

\* outside process_folder: no loop position, no sidecar, nothing written
InitRun ==
    /\ idx = 0
    /\ dry_run = FALSE
    /\ sidecars = [st \in {Stems[k] : k \in 1..Len(Stems)} |-> NoFile]
    /\ written = 0
    /\ log = <<>>
    /\ decoded = <<>>
    /\ failed = <<>>
    /\ reply = NoReply
    /\ _face_mesh = NoMesh
    /\ _init_failed = FALSE
    /\ uploaded_log = {}
    /\ skip_existing = FALSE
    /\ returned = <<0, 0>>
    /\ mediapipe = TRUE
    /\ folder = <<>>


\* the field values apply_rating is tried on
RateSharpness == {10, 50, 900}
RateFaceCount == {0, 1}
RateSharpnessScore == {0, Score(100)}
RateExposureScore == {0, Score(100)}
RateFaceScore == {0, FACES_NEUTRAL_SCORE, Score(100)}
RateUniquenessScore == {0, Score(30), Score(100)}
RateSeriesScore == {0, Score(30), Score(50), Score(100)}
RateAiScore == {0, Score(50), Score(100)}
RateStaleComposite == {0, 100 * ScoreUnit}

RateInputs ==
    { [PhotoInfo("a") EXCEPT
          !.sharpness = s, !.all_eyes_closed = e, !.is_worst_duplicate = w,
          !.is_best_in_series = b, !.face_count = fc,
          !.sharpness_score = t[1], !.exposure_score = t[2], !.face_score = t[3],
          !.uniqueness_score = t[4], !.series_score = t[5], !.ai_score = t[6],
          !.composite_score = c] :
        s \in RateSharpness, e \in BOOLEAN, w \in BOOLEAN, b \in BOOLEAN,
        fc \in RateFaceCount, c \in RateStaleComposite,
        t \in RateSharpnessScore \X RateExposureScore \X RateFaceScore
              \X RateUniquenessScore \X RateSeriesScore \X RateAiScore }

InitRate ==
    /\ photos \in {<<r>> : r \in RateInputs}
    /\ pre = photos
    /\ ai_mode = FALSE
    /\ pc = "input"
    /\ InitRun

\* one call apply_rating(photos[k], ai_mode=ai); a record may be rated again
ApplyRating(k, ai) ==
    /\ pc \in {"input", "rated"}
    /\ pre' = photos
    /\ photos' = [photos EXCEPT ![k] = apply_rating(photos[k], ai)]
    /\ ai_mode' = ai
    /\ pc' = "rated"
    /\ UNCHANGED run

NextRate == \E k \in 1..Len(photos), ai \in BOOLEAN : ApplyRating(k, ai)

SpecRate == InitRate /\ [][NextRate]_vars

\* ------------------------------------------------------------ duplicates.py

\* bin(val1 ^ val2).count("1"): the bits in which the two values differ
hamming_distance(hash1, hash2) ==
    Cardinality((hash1[1] \ hash2[1]) \cup (hash2[1] \ hash1[1]))

\* UnionFind(n): parent and rank over the indices of photos
UnionFind(n) == [parent |-> [x \in 1..n |-> x], rank |-> [x \in 1..n |-> 0]]

RECURSIVE FindRoot(_, _)
FindRoot(parent, x) == IF parent[x] = x THEN x ELSE FindRoot(parent, parent[x])

RECURSIVE PathTo(_, _)
PathTo(parent, x) == IF parent[x] = x THEN {} ELSE {x} \cup PathTo(parent, parent[x])

\* UnionFind.find: the root of x, every node on the path re-parented to it
find(uf, x) ==
    LET root == FindRoot(uf.parent, x)
    IN  [root |-> root,
         uf |-> [uf EXCEPT !.parent =
                    [y \in DOMAIN uf.parent |->
                        IF y \in PathTo(uf.parent, x) THEN root ELSE uf.parent[y]]]]

\* union that hangs y itself, not its root, under the root of x
unionNoRoot(uf, x, y) ==
    LET fx == find(uf, x)
        fy == find(fx.uf, y)
        u  == fy.uf
    IN  IF fx.root = fy.root THEN u
        ELSE [parent |-> [u.parent EXCEPT ![y] = fx.root], rank |-> u.rank]

\* UnionFind.union
union(uf, x, y) ==
    LET fx == find(uf, x)
        fy == find(fx.uf, y)
        u  == fy.uf
        rx == IF u.rank[fx.root] < u.rank[fy.root] THEN fy.root ELSE fx.root
        ry == IF u.rank[fx.root] < u.rank[fy.root] THEN fx.root ELSE fy.root
    IN  IF fx.root = fy.root THEN u
        ELSE [parent |-> [u.parent EXCEPT ![ry] = rx],
              rank |-> IF u.rank[rx] = u.rank[ry]
                       THEN [u.rank EXCEPT ![rx] = u.rank[rx] + 1]
                       ELSE u.rank]

\* valid = [(i, p) for i, p in enumerate(photos) if p.dhash]
RECURSIVE ValidFrom(_, _)
ValidFrom(ps, i) ==
    IF i > Len(ps) THEN <<>>
    ELSE IF ps[i].dhash # NoHash THEN <<i>> \o ValidFrom(ps, i + 1)
    ELSE ValidFrom(ps, i + 1)

Valid(ps) == ValidFrom(ps, 1)

\* one iteration of the inner loop: union on a pair within the threshold
ComparePair(uf, ps, x, y) ==
    IF hamming_distance(ps[x].dhash, ps[y].dhash) <= DHASH_THRESHOLD
    THEN union(uf, x, y) ELSE uf

\* the double loop over the pairs a < b of valid, from the pair (a, b) on
\* (the singleton set binds the structure after each iteration as a value)
RECURSIVE ComparePairs(_, _, _, _, _)
ComparePairs(uf, ps, valid, a, b) ==
    IF a > Len(valid) THEN uf
    ELSE IF b > Len(valid) THEN ComparePairs(uf, ps, valid, a + 1, a + 2)
    ELSE CHOOSE r \in { ComparePairs(u, ps, valid, a, b + 1) :
                            u \in {ComparePair(uf, ps, valid[a], valid[b])} } : TRUE

\* position of root among the keys of groups, 0 when absent
KeyIndex(groups, root) ==
    IF \E g \in 1..Len(groups) : groups[g].root = root
    THEN CHOOSE g \in 1..Len(groups) : groups[g].root = root
    ELSE 0

\* groups.setdefault(uf.find(i), []).append(i) for i in range(n): the dict
\* in insertion order
RECURSIVE CollectGroups(_, _, _, _)
CollectGroups(uf, i, n, groups) ==
    IF i > n THEN groups
    ELSE CHOOSE r \in
            { CollectGroups(f.uf, i + 1, n,
                  IF KeyIndex(groups, f.root) = 0
                  THEN Append(groups, [root |-> f.root, members |-> <<i>>])
                  ELSE [groups EXCEPT ![KeyIndex(groups, f.root)].members = Append(@, i)]) :
              f \in {find(uf, i)} } : TRUE

\* max(members, key=sharpness) in place of min
MostSharp(ps, members) ==
    members[CHOOSE j \in 1..Len(members) :
        /\ \A l \in 1..Len(members) : ps[members[l]].sharpness <= ps[members[j]].sharpness
        /\ \A l \in 1..(j - 1) : ps[members[l]].sharpness < ps[members[j]].sharpness]

\* min(members, key=lambda i: photos[i].sharpness): the first minimal member
Worst(ps, members) ==
    members[CHOOSE j \in 1..Len(members) :
        /\ \A l \in 1..Len(members) : ps[members[j]].sharpness <= ps[members[l]].sharpness
        /\ \A l \in 1..(j - 1) : ps[members[l]].sharpness > ps[members[j]].sharpness]

InSeq(x, seq) == \E j \in 1..Len(seq) : seq[j] = x

\* the body of the loop over groups.items() for one group that is kept
MarkGroup(ps, members, group_id) ==
    CHOOSE r \in
        { [k \in 1..Len(ps) |->
              IF ~InSeq(k, members) THEN ps[k]
              ELSE IF k = worst_idx
              THEN [ps[k] EXCEPT !.duplicate_group = group_id,
                                 !.is_worst_duplicate = TRUE,
                                 !.uniqueness_score = Score(30)]
              ELSE [ps[k] EXCEPT !.duplicate_group = group_id]] :
          worst_idx \in {Worst(ps, members)} } : TRUE

\* the loop over groups.items() without the test that skips singletons
RECURSIVE AssignGroupsAll(_, _, _, _)
AssignGroupsAll(ps, groups, g, group_id) ==
    IF g > Len(groups) THEN ps
    ELSE AssignGroupsAll(MarkGroup(ps, groups[g].members, group_id), groups, g + 1, group_id + 1)

\* the loop over groups.items(), from group g on
RECURSIVE AssignGroups(_, _, _, _)
AssignGroups(ps, groups, g, group_id) ==
    IF g > Len(groups) THEN ps
    ELSE IF Len(groups[g].members) < 2 THEN AssignGroups(ps, groups, g + 1, group_id)
    ELSE CHOOSE r \in
            { AssignGroups(marked, groups, g + 1, group_id + 1) :
              marked \in {MarkGroup(ps, groups[g].members, group_id)} } : TRUE

find_duplicate_groups(ps) ==
    IF Len(ps) < 2 THEN ps
    ELSE IF Len(Valid(ps)) < 2 THEN ps
    ELSE CHOOSE r \in
            { AssignGroups(ps, groups, 1, 0) :
              groups \in { CollectGroups(uf, 1, Len(ps), <<>>) :
                  uf \in {ComparePairs(UnionFind(Len(ps)), ps, Valid(ps), 1, 2)} } } : TRUE

\* ------------------------------------------- duplicate clustering alone

MaxDupPhotos == 4

\* no hash; 0; 0x3ff (10 bits from 0); 0xfffff (10 bits from 0x3ff, 20 from
\* 0); 0x7ff00000 (11 bits from 0, more from the others)
HashPool ==
    { NoHash,
      Hash({}),
      Hash(0..9),
      Hash(0..19),
      Hash(20..30) }

DupSharpness == {100, 200}

\* fresh records that differ only in hash and raw sharpness
DupInput(n, f) ==
    [k \in 1..n |-> [PhotoInfo(Stems[k]) EXCEPT !.dhash = f[k][1], !.sharpness = f[k][2]]]

InitDup ==
    /\ \E n \in 0..MaxDupPhotos : \E f \in [1..n -> HashPool \X DupSharpness] :
          photos = DupInput(n, f)
    /\ pre = photos
    /\ ai_mode = FALSE
    /\ pc = "hashed"
    /\ InitRun

\* photos = find_duplicate_groups(photos)
FindDuplicateGroups ==
    /\ pc = "hashed"
    /\ pre' = photos
    /\ photos' = find_duplicate_groups(photos)
    /\ pc' = "clustered"
    /\ UNCHANGED <<ai_mode, run>>

NextDup == FindDuplicateGroups

SpecDup == InitDup /\ [][NextDup]_vars

\* -------------------------------------------------------------- analyzer.py

\* normalize_sharpness whose first segment lacks the factor 0.5
normalize_sharpnessSteep(sharpness) ==
    IF sharpness < SHARPNESS_TERRIBLE THEN 0
    ELSE IF sharpness < SHARPNESS_LOW
    THEN ((sharpness - SHARPNESS_TERRIBLE) * ScoreUnit) \div (SHARPNESS_LOW - SHARPNESS_TERRIBLE)
    ELSE IF sharpness < SHARPNESS_HIGH
    THEN ScoreUnit \div 2
         + ((sharpness - SHARPNESS_LOW) * ScoreUnit) \div (2 * (SHARPNESS_HIGH - SHARPNESS_LOW))
    ELSE ScoreUnit

normalize_sharpness(sharpness) ==
    IF sharpness < SHARPNESS_TERRIBLE THEN 0
    ELSE IF sharpness < SHARPNESS_LOW
    THEN ((sharpness - SHARPNESS_TERRIBLE) * ScoreUnit) \div (2 * (SHARPNESS_LOW - SHARPNESS_TERRIBLE))
    ELSE IF sharpness < SHARPNESS_HIGH
    THEN ScoreUnit \div 2
         + ((sharpness - SHARPNESS_LOW) * ScoreUnit) \div (2 * (SHARPNESS_HIGH - SHARPNESS_LOW))
    ELSE ScoreUnit

Max0(x) == IF x < 0 THEN 0 ELSE x

score_exposure(brightness) ==
    IF BRIGHTNESS_IDEAL_LOW <= brightness /\ brightness <= BRIGHTNESS_IDEAL_HIGH THEN ScoreUnit
    ELSE IF brightness < BRIGHTNESS_IDEAL_LOW
    THEN Max0((brightness * ScoreUnit) \div BRIGHTNESS_IDEAL_LOW)
    ELSE Max0(((255 - brightness) * ScoreUnit) \div (255 - BRIGHTNESS_IDEAL_HIGH))

\* analyze_image on an image of the given Laplacian variance and mean brightness
analyze_image(image) ==
    [ sharpness |-> image.sharpness,
      sharpness_score |-> normalize_sharpness(image.sharpness),
      brightness |-> image.brightness,
      exposure_score |-> score_exposure(image.brightness) ]

\* ----------------------------------------------------------------- faces.py

\* _get_face_mesh without the test of _init_failed
_get_face_meshForgetsFailure(face_mesh, init_failed, built) ==
    IF face_mesh # NoMesh
    THEN [ mesh |-> face_mesh, _face_mesh |-> face_mesh, _init_failed |-> init_failed,
           attempted |-> FALSE ]
    ELSE IF built
    THEN [ mesh |-> FaceMesh, _face_mesh |-> FaceMesh, _init_failed |-> init_failed,
           attempted |-> TRUE ]
    ELSE [ mesh |-> NoMesh, _face_mesh |-> NoMesh, _init_failed |-> TRUE, attempted |-> TRUE ]

\* _get_face_mesh that returns None from the call that constructs
_get_face_meshLate(face_mesh, init_failed, built) ==
    IF init_failed
    THEN [ mesh |-> NoMesh, _face_mesh |-> face_mesh, _init_failed |-> init_failed,
           attempted |-> FALSE ]
    ELSE IF face_mesh # NoMesh
    THEN [ mesh |-> face_mesh, _face_mesh |-> face_mesh, _init_failed |-> init_failed,
           attempted |-> FALSE ]
    ELSE IF built
    THEN [ mesh |-> NoMesh, _face_mesh |-> FaceMesh, _init_failed |-> init_failed,
           attempted |-> TRUE ]
    ELSE [ mesh |-> NoMesh, _face_mesh |-> NoMesh, _init_failed |-> TRUE, attempted |-> TRUE ]

\* _get_face_mesh() on the two module globals; built is whether constructing
\* FaceMesh succeeds; attempted tells whether the call constructed
_get_face_mesh(face_mesh, init_failed, built) ==
    IF init_failed
    THEN [ mesh |-> NoMesh, _face_mesh |-> face_mesh, _init_failed |-> init_failed,
           attempted |-> FALSE ]
    ELSE IF face_mesh # NoMesh
    THEN [ mesh |-> face_mesh, _face_mesh |-> face_mesh, _init_failed |-> init_failed,
           attempted |-> FALSE ]
    ELSE IF built
    THEN [ mesh |-> FaceMesh, _face_mesh |-> FaceMesh, _init_failed |-> init_failed,
           attempted |-> TRUE ]
    ELSE [ mesh |-> NoMesh, _face_mesh |-> NoMesh, _init_failed |-> TRUE, attempted |-> TRUE ]

\* detect_faces: mesh tells whether _get_face_mesh gave a model; faces is
\* what the model finds, one pair <<left EAR, right EAR>> (in hundredths)
\* per face
detect_facesStrict(mesh, faces) ==
    IF ~mesh THEN [face_count |-> 0, eyes_open_ratio |-> 0, all_eyes_closed |-> FALSE]
    ELSE IF Len(faces) = 0 THEN [face_count |-> 0, eyes_open_ratio |-> 0, all_eyes_closed |-> FALSE]
    ELSE LET total_eyes == 2 * Len(faces)
             eyes_open == Cardinality({ e \in (1..Len(faces)) \X {1, 2} :
                                          faces[e[1]][e[2]] > EAR_CLOSED_THRESHOLD })
         IN  [ face_count |-> Len(faces),
               eyes_open_ratio |-> IF total_eyes > 0 THEN (eyes_open * ScoreUnit) \div total_eyes ELSE 0,
               all_eyes_closed |-> total_eyes > 0 /\ eyes_open = 0 ]

detect_faces(mesh, faces) ==
    IF ~mesh THEN [face_count |-> 0, eyes_open_ratio |-> 0, all_eyes_closed |-> FALSE]
    ELSE IF Len(faces) = 0 THEN [face_count |-> 0, eyes_open_ratio |-> 0, all_eyes_closed |-> FALSE]
    ELSE LET total_eyes == 2 * Len(faces)
             eyes_open == Cardinality({ e \in (1..Len(faces)) \X {1, 2} :
                                          faces[e[1]][e[2]] >= EAR_CLOSED_THRESHOLD })
         IN  [ face_count |-> Len(faces),
               eyes_open_ratio |-> IF total_eyes > 0 THEN (eyes_open * ScoreUnit) \div total_eyes ELSE 0,
               all_eyes_closed |-> total_eyes > 0 /\ eyes_open = 0 ]

compute_face_score(face_count, eyes_open_ratio) ==
    IF face_count = 0 THEN FACES_NEUTRAL_SCORE ELSE eyes_open_ratio

\* ------------------------------------------------------ analyze_image alone

MaxSharpness == 900

\* a fresh record; idx is the Laplacian variance of the next image
InitSharpness ==
    /\ photos = <<PhotoInfo(Stems[1])>>
    /\ pre = photos
    /\ ai_mode = FALSE
    /\ pc = "image"
    /\ InitRun

\* the assignment of analyze_image(image) in analyze_photo, on images of
\* growing Laplacian variance and of either brightness
AnalyzeImage ==
    /\ pc = "image"
    /\ idx <= MaxSharpness
    /\ \E b \in {BRIGHTNESS_IDEAL_LOW, BRIGHTNESS_IDEAL_LOW - 1} :
          LET a == analyze_image([sharpness |-> idx, brightness |-> b])
          IN  photos' = <<[PhotoInfo(Stems[1]) EXCEPT
                             !.sharpness = a.sharpness,
                             !.sharpness_score = a.sharpness_score,
                             !.brightness = a.brightness,
                             !.exposure_score = a.exposure_score]>>
    /\ pre' = photos
    /\ idx' = idx + 1
    /\ UNCHANGED <<ai_mode, pc, dry_run, sidecars, written, log, decoded, failed, reply,
                   _face_mesh, _init_failed, mediapipe, folder, uploaded_log, skip_existing, returned>>

SpecSharpness == InitSharpness /\ [][AnalyzeImage]_vars

\* ---------------------------------------------------------------- series.py

\* timed.sort(key=timestamp) is stable: the indices of the photos that have a
\* timestamp, by timestamp and then by position
RECURSIVE SortTimed(_, _)
SortTimed(ps, rest) ==
    IF rest = {} THEN <<>>
    ELSE LET first == CHOOSE i \in rest : \A j \in rest :
                          \/ ps[i].timestamp < ps[j].timestamp
                          \/ (ps[i].timestamp = ps[j].timestamp /\ i <= j)
         IN  <<first>> \o SortTimed(ps, rest \ {first})

Timed(ps) == SortTimed(ps, { i \in 1..Len(ps) : ps[i].timestamp # None })

\* the walk with the boundary excluded: a gap of exactly SERIES_GAP_SECONDS cuts
RECURSIVE WalkSeriesStrict(_, _, _, _, _)
WalkSeriesStrict(ps, timed, k, series, current_series) ==
    IF k > Len(timed)
    THEN IF Len(current_series) >= 2 THEN Append(series, current_series) ELSE series
    ELSE IF ps[timed[k]].timestamp - ps[timed[k - 1]].timestamp < SERIES_GAP_SECONDS
    THEN WalkSeriesStrict(ps, timed, k + 1, series, Append(current_series, timed[k]))
    ELSE WalkSeriesStrict(ps, timed, k + 1,
                    IF Len(current_series) >= 2 THEN Append(series, current_series) ELSE series,
                    <<timed[k]>>)

\* the walk that emits every run, a run of one photo included
RECURSIVE WalkSeriesSingles(_, _, _, _, _)
WalkSeriesSingles(ps, timed, k, series, current_series) ==
    IF k > Len(timed)
    THEN Append(series, current_series)
    ELSE IF ps[timed[k]].timestamp - ps[timed[k - 1]].timestamp <= SERIES_GAP_SECONDS
    THEN WalkSeriesSingles(ps, timed, k + 1, series, Append(current_series, timed[k]))
    ELSE WalkSeriesSingles(ps, timed, k + 1, Append(series, current_series), <<timed[k]>>)

\* the walk over consecutive pairs of timed, from position k on: the list of
\* the series closed so far and the series being extended
RECURSIVE WalkSeries(_, _, _, _, _)
WalkSeries(ps, timed, k, series, current_series) ==
    IF k > Len(timed)
    THEN IF Len(current_series) >= 2 THEN Append(series, current_series) ELSE series
    ELSE IF ps[timed[k]].timestamp - ps[timed[k - 1]].timestamp <= SERIES_GAP_SECONDS
    THEN WalkSeries(ps, timed, k + 1, series, Append(current_series, timed[k]))
    ELSE WalkSeries(ps, timed, k + 1,
                    IF Len(current_series) >= 2 THEN Append(series, current_series) ELSE series,
                    <<timed[k]>>)

\* the last maximal member
BestLast(ps, members) ==
    members[CHOOSE j \in 1..Len(members) :
        /\ \A l \in 1..Len(members) : ps[members[l]].sharpness <= ps[members[j]].sharpness
        /\ \A l \in (j + 1)..Len(members) : ps[members[l]].sharpness < ps[members[j]].sharpness]

\* max(members, key=lambda i: photos[i].sharpness): the first maximal member
Best(ps, members) ==
    members[CHOOSE j \in 1..Len(members) :
        /\ \A l \in 1..Len(members) : ps[members[l]].sharpness <= ps[members[j]].sharpness
        /\ \A l \in 1..(j - 1) : ps[members[l]].sharpness < ps[members[j]].sharpness]

\* the body of the loop over enumerate(series) for one series
MarkSeries(ps, members, group_id) ==
    CHOOSE r \in
        { [k \in 1..Len(ps) |->
              IF ~InSeq(k, members) THEN ps[k]
              ELSE IF k = best_idx
              THEN [ps[k] EXCEPT !.series_group = group_id,
                                 !.is_best_in_series = TRUE,
                                 !.series_score = Score(100)]
              ELSE [ps[k] EXCEPT !.series_group = group_id,
                                 !.series_score = Score(30)]] :
          best_idx \in {Best(ps, members)} } : TRUE

\* the loop over enumerate(series), from series g on (group_id = g - 1)
RECURSIVE AssignSeries(_, _, _)
AssignSeries(ps, series, g) ==
    IF g > Len(series) THEN ps
    ELSE CHOOSE r \in
            { AssignSeries(marked, series, g + 1) :
              marked \in {MarkSeries(ps, series[g], g - 1)} } : TRUE

group_into_series(ps) ==
    CHOOSE r \in
        { IF Len(timed) < 2 THEN ps
          ELSE AssignSeries(ps, WalkSeries(ps, timed, 2, <<>>, <<timed[1]>>), 1) :
          timed \in {Timed(ps)} } : TRUE

\* ------------------------------------------------ burst segmentation alone

MaxSeriesPhotos == 4

\* no timestamp, and capture times in seconds: gaps of 0, 3 (inside a run), 4
\* and more (a cut)
SeriesTimestamps == {None, 0, 3, 7, 11}

SeriesSharpness == {100, 200}

\* fresh records that differ only in timestamp and raw sharpness
SeriesInput(n, f) ==
    [k \in 1..n |-> [PhotoInfo(Stems[k]) EXCEPT !.timestamp = f[k][1], !.sharpness = f[k][2]]]

InitSeries ==
    /\ \E n \in 0..MaxSeriesPhotos : \E f \in [1..n -> SeriesTimestamps \X SeriesSharpness] :
          photos = SeriesInput(n, f)
    /\ pre = photos
    /\ ai_mode = FALSE
    /\ pc = "stamped"
    /\ InitRun

\* photos = group_into_series(photos)
GroupIntoSeries ==
    /\ pc = "stamped"
    /\ pre' = photos
    /\ photos' = group_into_series(photos)
    /\ pc' = "grouped"
    /\ UNCHANGED <<ai_mode, run>>

NextSeries == GroupIntoSeries

SpecSeries == InitSeries /\ [][NextSeries]_vars

\* ------------------------------------------------------------------- xmp.py

\* generate_xmp: the document, of which only the xmp:Rating attribute varies
generate_xmp(rating) ==
    [rating |-> IF rating > 5 THEN 5 ELSE IF rating < 1 THEN 1 ELSE rating]

\* a file that write_text opened, and so emptied, and could not fill: no
\* document
Truncated == [rating |-> -1]

\* what write_text can do: write the file; raise before the file is opened
\* (the directory or the file is not writable); raise after it
WriteOutcomes == {"ok", "open_fails", "write_fails"}

\* write_xmp that does not look at dry_run
write_xmpIgnoresDryRun(files, stem, rating, dry, outcome) ==
    IF outcome = "ok"
    THEN [files |-> [files EXCEPT ![stem] = generate_xmp(rating)], raised |-> FALSE]
    ELSE IF outcome = "open_fails" THEN [files |-> files, raised |-> TRUE]
    ELSE [files |-> [files EXCEPT ![stem] = Truncated], raised |-> TRUE]

\* write_xmp that leaves a sidecar that exists alone
write_xmpKeepsExisting(files, stem, rating, dry, outcome) ==
    IF dry \/ files[stem] # NoFile THEN [files |-> files, raised |-> FALSE]
    ELSE IF outcome = "ok"
    THEN [files |-> [files EXCEPT ![stem] = generate_xmp(rating)], raised |-> FALSE]
    ELSE IF outcome = "open_fails" THEN [files |-> files, raised |-> TRUE]
    ELSE [files |-> [files EXCEPT ![stem] = Truncated], raised |-> TRUE]

\* write_xmp(photo_path, rating, dry_run) for a path of this stem: the files
\* after the call and whether it raised; it returns xmp_path when it returns
write_xmp(files, stem, rating, dry, outcome) ==
    IF dry THEN [files |-> files, raised |-> FALSE]
    ELSE IF outcome = "ok"
    THEN [files |-> [files EXCEPT ![stem] = generate_xmp(rating)], raised |-> FALSE]
    ELSE IF outcome = "open_fails" THEN [files |-> files, raised |-> TRUE]
    ELSE [files |-> [files EXCEPT ![stem] = Truncated], raised |-> TRUE]

\* ----------------------------------------------------------- ai_analyzer.py

\* a JSON value of the model's reply: a number (in units of 1/ScoreUnit), a
\* boolean (v is 0 or 1) or null
JNum(v) == [t |-> "num", v |-> v]
JBool(b) == [t |-> "bool", v |-> IF b THEN 1 ELSE 0]
JNull == [t |-> "null", v |-> 0]
\* a string that is not empty and not the text of a number
JStr == [t |-> "str", v |-> 1]

AiKeys == {"sharpness", "exposure", "face_quality", "face_count", "eyes_closed", "composition"}

\* defaults of _parse_response
AiDefaults ==
    [ sharpness |-> JNum(Score(50)),
      exposure |-> JNum(Score(50)),
      face_quality |-> JNum(Score(70)),
      face_count |-> JNum(0),
      eyes_closed |-> JBool(FALSE),
      composition |-> JNum(Score(50)) ]

\* _parse_response with "data.get(key) or default": a present 0, false or null
\* is taken for missing
_parse_responseFalsy(data) ==
    [k \in AiKeys |-> IF k \in DOMAIN data /\ data[k].v # 0 THEN data[k] ELSE AiDefaults[k]]

\* _parse_response on content in which a JSON object was found: the keys
\* that are missing get their default
_parse_response(data) ==
    [k \in AiKeys |-> IF k \in DOMAIN data THEN data[k] ELSE AiDefaults[k]]

\* float(x), int(x), bool(x) of a JSON value; float and int raise on null
\* (TypeError) and on a string that is not a number (ValueError)
Raises(conv, x) == conv \in {"float", "int"} /\ x.t \in {"null", "str"}

Convert(conv, x) ==
    IF conv = "float" THEN (IF x.t = "bool" THEN x.v * ScoreUnit ELSE x.v)
    ELSE IF conv = "int"
    THEN (IF x.t = "bool" THEN x.v
          ELSE IF x.v >= 0 THEN x.v \div ScoreUnit ELSE -((-x.v) \div ScoreUnit))
    ELSE (x.v # 0)

\* the assignments that fill PhotoInfo from data, in the order of the code
AiAssignments ==
    << <<"sharpness_score", "float", "sharpness">>,
       <<"exposure_score", "float", "exposure">>,
       <<"face_score", "float", "face_quality">>,
       <<"face_count", "int", "face_count">>,
       <<"all_eyes_closed", "bool", "eyes_closed">>,
       <<"ai_score", "float", "composition">> >>

\* the assignments from the k-th on; a conversion that raises leaves the
\* fields assigned before it and ends the call with the exception
RECURSIVE FillFrom(_, _, _)
FillFrom(photo, data, k) ==
    IF k > Len(AiAssignments)
    THEN [ photo |-> [photo EXCEPT !.sharpness = (photo.sharpness_score * 1000) \div ScoreUnit],
           raised |-> FALSE ]
    ELSE IF Raises(AiAssignments[k][2], data[AiAssignments[k][3]])
    THEN [photo |-> photo, raised |-> TRUE]
    ELSE CHOOSE r \in
            { FillFrom(filled, data, k + 1) :
              filled \in { [photo EXCEPT ![AiAssignments[k][1]] =
                              Convert(AiAssignments[k][2], data[AiAssignments[k][3]])] } } : TRUE

\* the outcomes analyze_photo_ai returns on without touching the record: the
\* image could not be read, the request failed, the body is an object without
\* message.content, the content is not JSON and holds no {...} block that is
AiFailures == {"encode_error", "request_error", "no_content", "no_json"}

\* the outcomes on which an exception leaves analyze_photo_ai before the first
\* assignment: body or body["message"] is not an object or the content no
\* string (TypeError, AttributeError; only KeyError and JSONDecodeError are
\* caught), the content is a JSON value that is not an object (TypeError in
\* the loop over defaults of _parse_response)
AiUncaught == {"bad_body", "json_value"}

\* analyze_photo_ai that takes content without a JSON object for an empty object
analyze_photo_aiBackfillsFailure(photo, answer) ==
    IF answer.kind \in AiFailures \ {"no_json"}
    THEN [photo |-> photo, raised |-> FALSE]
    ELSE IF answer.kind \in AiUncaught
    THEN [photo |-> photo, raised |-> TRUE]
    ELSE FillFrom(photo, _parse_response(answer.data), 1)

\* analyze_photo_ai on the outcome of the call to the endpoint: one of the
\* above, or the content holds the JSON object answer.data
analyze_photo_ai(photo, answer) ==
    IF answer.kind \in AiFailures
    THEN [photo |-> photo, raised |-> FALSE]
    ELSE IF answer.kind \in AiUncaught
    THEN [photo |-> photo, raised |-> TRUE]
    ELSE FillFrom(photo, _parse_response(answer.data), 1)

\* ------------------------------------------------- analyze_photo_ai alone

\* a key the object does not have
JMissing == [t |-> "missing", v |-> 0]

\* the JSON object with the keys of g that are not missing
Object(g) == [k \in { key \in AiKeys : g[key] # JMissing } |-> g[k]]

\* the objects the content can hold: every key missing or present, with a
\* value of the type the prompt asks for (0 and false among them), with
\* null or with a string
AiObjects ==
    { Object([ sharpness |-> s, exposure |-> e, face_quality |-> fq,
               face_count |-> fc, eyes_closed |-> ec, composition |-> c ]) :
        s \in {JMissing, JNum(Score(25)), JNull, JStr},
        e \in {JMissing, JNum(Score(100)), JNull},
        fq \in {JMissing, JNum(0)},
        fc \in {JMissing, JNum(2 * ScoreUnit), JBool(TRUE)},
        ec \in {JMissing, JBool(FALSE), JStr},
        c \in {JMissing, JNum(Score(75)), JNull} }

InitAi ==
    /\ photos = <<PhotoInfo(Stems[1])>>
    /\ pre = photos
    /\ ai_mode = TRUE
    /\ pc = "call"
    /\ reply \in { [kind |-> k, data |-> <<>>] : k \in AiFailures \cup AiUncaught }
                 \cup { [kind |-> "json", data |-> d] : d \in AiObjects }
    /\ idx = 0
    /\ dry_run = FALSE
    /\ sidecars = [st \in {Stems[k] : k \in 1..Len(Stems)} |-> NoFile]
    /\ written = 0
    /\ log = <<>>
    /\ decoded = <<>>
    /\ failed = <<>>
    /\ _face_mesh = NoMesh
    /\ _init_failed = FALSE
    /\ uploaded_log = {}
    /\ skip_existing = FALSE
    /\ returned = <<0, 0>>
    /\ mediapipe = TRUE
    /\ folder = <<>>

\* analyze_photo_ai(photo) on a fresh record
AnalyzePhotoAiCall ==
    /\ pc = "call"
    /\ LET r == analyze_photo_ai(photos[1], reply)
       IN  /\ photos' = <<r.photo>>
           /\ pc' = IF r.raised THEN "raised" ELSE "returned"
    /\ pre' = photos
    /\ UNCHANGED <<ai_mode, run>>

SpecAi == InitAi /\ [][AnalyzePhotoAiCall]_vars

\* ------------------------------------------------------------------ cull.py

\* analyze_photo without the early return: the EXIF block is read all the same
analyze_photoReadsExif(photo, w) ==
    IF ~w.loaded THEN [photo EXCEPT !.timestamp = w.timestamp]
    ELSE LET a == analyze_image(w.image)
             f == detect_faces(w.mesh, w.faces)
         IN  [photo EXCEPT
                !.sharpness = a.sharpness,
                !.sharpness_score = a.sharpness_score,
                !.brightness = a.brightness,
                !.exposure_score = a.exposure_score,
                !.face_count = IF w.faces_raise THEN @ ELSE f.face_count,
                !.eyes_open_ratio = IF w.faces_raise THEN @ ELSE f.eyes_open_ratio,
                !.all_eyes_closed = IF w.faces_raise THEN @ ELSE f.all_eyes_closed,
                !.face_score = IF w.faces_raise THEN @
                               ELSE compute_face_score(f.face_count, f.eyes_open_ratio),
                !.dhash = IF w.dhash_raise THEN @ ELSE w.dhash,
                !.timestamp = w.timestamp]

\* analyze_photo on what the file holds: w.loaded is whether load_image gave
\* an image, w.faces_raise and w.dhash_raise whether detect_faces and
\* compute_dhash raised
analyze_photo(photo, w) ==
    IF ~w.loaded THEN photo
    ELSE LET a == analyze_image(w.image)
             f == detect_faces(w.mesh, w.faces)
         IN  [photo EXCEPT
                !.sharpness = a.sharpness,
                !.sharpness_score = a.sharpness_score,
                !.brightness = a.brightness,
                !.exposure_score = a.exposure_score,
                !.face_count = IF w.faces_raise THEN @ ELSE f.face_count,
                !.eyes_open_ratio = IF w.faces_raise THEN @ ELSE f.eyes_open_ratio,
                !.all_eyes_closed = IF w.faces_raise THEN @ ELSE f.all_eyes_closed,
                !.face_score = IF w.faces_raise THEN @
                               ELSE compute_face_score(f.face_count, f.eyes_open_ratio),
                !.dhash = IF w.dhash_raise THEN @ ELSE w.dhash,
                !.timestamp = w.timestamp]

\* analyze_photo with the globals of faces.py: detect_faces, reached only
\* with an image, asks _get_face_mesh for the mesh
AnalyzeWithMesh(photo, w, face_mesh, init_failed, built) ==
    IF ~w.loaded
    THEN [ photo |-> analyze_photo(photo, w), _face_mesh |-> face_mesh,
           _init_failed |-> init_failed, attempted |-> FALSE ]
    ELSE LET g == _get_face_mesh(face_mesh, init_failed, built)
         IN  [ photo |-> analyze_photo(photo, [w EXCEPT !.mesh = g.mesh # NoMesh]),
               _face_mesh |-> g._face_mesh, _init_failed |-> g._init_failed,
               attempted |-> g.attempted ]

\* the rest of the body of the AI loop: dHash and EXIF timestamp
HashAndTimestamp(photo, w) ==
    [photo EXCEPT
        !.dhash = IF w.loaded /\ ~w.dhash_raise THEN w.dhash ELSE @,
        !.timestamp = w.timestamp]

\* a call of process_folder: the function called and, in the analysis loops,
\* the position of the photo it is called on
Call(op, k) == [op |-> op, k |-> k]

\* a call of write_xmp and how it ended
XmpCall(stem, rating, dry, raised) ==
    [op |-> "write_xmp", stem |-> stem, rating |-> rating, dry_run |-> dry, raised |-> raised]

\* the loop of write_all_xmp without the try: the first write that raises
\* ends it
RECURSIVE write_all_xmpStops(_, _, _, _, _)
write_all_xmpStops(ps, k, st, dry, outcomes) ==
    IF k > Len(ps) THEN st
    ELSE CHOOSE r \in
            { IF w.raised
              THEN [ files |-> w.files, written |-> st.written,
                     calls |-> Append(st.calls, XmpCall(ps[k].stem, ps[k].rating, dry, TRUE)) ]
              ELSE write_all_xmpStops(ps, k + 1,
                    [ files |-> w.files,
                      written |-> st.written + 1,
                      calls |-> Append(st.calls, XmpCall(ps[k].stem, ps[k].rating, dry, FALSE)) ],
                    dry, outcomes) :
              w \in {write_xmp(st.files, ps[k].stem, ps[k].rating, dry, outcomes[k])} } : TRUE

\* the loop of write_all_xmp from the k-th photo on: st holds the files, the
\* count written and the calls of write_xmp made so far; outcomes[k] is
\* what write_text does for the k-th photo
RECURSIVE write_all_xmp(_, _, _, _, _)
write_all_xmp(ps, k, st, dry, outcomes) ==
    IF k > Len(ps) THEN st
    ELSE CHOOSE r \in
            { write_all_xmp(ps, k + 1,
                    [ files |-> w.files,
                      written |-> IF w.raised THEN st.written ELSE st.written + 1,
                      calls |-> Append(st.calls, XmpCall(ps[k].stem, ps[k].rating, dry, w.raised)) ],
                    dry, outcomes) :
              w \in {write_xmp(st.files, ps[k].stem, ps[k].rating, dry, outcomes[k])} } : TRUE

\* ------------------------------------------------------ sidecar writing alone

MaxXmpWrites == 3

\* ratings below, inside and above 1..5
XmpRatings == {0, 3, 10}

\* the calls of write_xmp among the calls of the log
WritesIn(calls) == { i \in 1..Len(calls) : calls[i].op = "write_xmp" }

InitXmp ==
    /\ photos = <<>>
    /\ pre = photos
    /\ ai_mode = FALSE
    /\ pc = "sidecars"
    /\ InitRun

\* written = write_all_xmp(photos, dry_run) on a list of records with one stem
\* each, in a folder that holds the sidecars of the calls before
WriteAllXmpCall ==
    /\ pc = "sidecars"
    /\ \E n \in 1..(MaxXmpWrites - Cardinality(WritesIn(log))) :
       \E f \in [1..n -> XmpRatings], dry \in BOOLEAN, outcomes \in [1..n -> WriteOutcomes] :
          /\ dry => \A k \in 1..n : outcomes[k] = "ok"
          /\ LET ps == [k \in 1..n |-> [PhotoInfo(Stems[k]) EXCEPT !.rating = f[k]]]
                 r == write_all_xmp(ps, 1,
                                    [files |-> sidecars, written |-> 0, calls |-> <<>>],
                                    dry, outcomes)
             IN  /\ photos' = ps
                 /\ dry_run' = dry
                 /\ sidecars' = r.files
                 /\ written' = r.written
                 /\ log' = Append(log, Call("write_all_xmp", 0)) \o r.calls
    /\ pre' = photos
    /\ UNCHANGED <<ai_mode, pc, idx, decoded, failed, reply,
                   _face_mesh, _init_failed, mediapipe, folder,
                   uploaded_log, skip_existing, returned>>

SpecXmp == InitXmp /\ [][WriteAllXmpCall]_vars

\* ---------------------------------------------------- a process_folder run

MaxPhotos == 2

\* what a file can hold
WorldImages ==
    { [sharpness |-> 10, brightness |-> 140],
      [sharpness |-> 900, brightness |-> 140],
      [sharpness |-> 500, brightness |-> 50] }

\* what the face mesh finds: no face, a face with open eyes, a face with
\* closed eyes
WorldFaces == { <<>>, << <<30, 30>> >>, << <<10, 10>> >> }

WorldHashes == { Hash({}), Hash(0..9) }

WorldTimestamps == { None, 0 }

World(loaded, im, mesh, fr, fa, dr, h, t) ==
    [ loaded |-> loaded, image |-> im, mesh |-> mesh, faces_raise |-> fr, faces |-> fa,
      dhash_raise |-> dr, dhash |-> h, timestamp |-> t ]

NoImage == [sharpness |-> 0, brightness |-> 0]

\* files that do not load, with and without a readable EXIF block; files that
\* load, with every image and faces; with every hash and timestamp; files on
\* which detect_faces or compute_dhash raises
Worlds ==
    { World(FALSE, NoImage, TRUE, FALSE, <<>>, FALSE, Hash({}), t) : t \in WorldTimestamps }
    \cup
    { World(TRUE, im, TRUE, FALSE, fa, FALSE, Hash({}), 0) :
        im \in WorldImages, fa \in WorldFaces }
    \cup
    { World(TRUE, [sharpness |-> 900, brightness |-> 140], TRUE, FALSE, << <<30, 30>> >>,
            FALSE, h, t) :
        h \in WorldHashes, t \in WorldTimestamps }
    \cup
    { World(TRUE, [sharpness |-> 900, brightness |-> 140], TRUE, fr, <<>>, dr, Hash({}), 0) :
        fr \in BOOLEAN, dr \in BOOLEAN }

\* what the endpoint can answer
AiReplies ==
    { [kind |-> k, data |-> <<>>] : k \in AiFailures \cup AiUncaught }
    \cup
    { [kind |-> "json", data |-> d] : d \in
        { <<>>,
          [ sharpness |-> JNum(Score(100)), exposure |-> JNum(Score(100)),
            face_quality |-> JNum(Score(100)), face_count |-> JNum(ScoreUnit),
            eyes_closed |-> JBool(FALSE), composition |-> JNum(Score(100)) ],
          [ sharpness |-> JNum(Score(50)), face_quality |-> JNum(0),
            face_count |-> JNum(ScoreUnit), eyes_closed |-> JBool(TRUE) ],
          [ sharpness |-> JNum(Score(150)), exposure |-> JNum(Score(100)),
            composition |-> JNum(Score(150)) ],
          [ sharpness |-> JNum(Score(100)), exposure |-> JNum(-Score(50)),
            face_quality |-> JNum(-Score(50)), composition |-> JNum(-Score(50)) ],
          [ sharpness |-> JNum(Score(100)), exposure |-> JNull ],
          [ sharpness |-> JStr ] } }

\* in AI mode only the hash and the timestamp come from the file
AiWorlds ==
    { World(FALSE, NoImage, TRUE, FALSE, <<>>, FALSE, Hash({}), None) }
    \cup
    { World(TRUE, NoImage, TRUE, FALSE, <<>>, FALSE, h, 0) : h \in WorldHashes }
    \cup
    { World(TRUE, NoImage, TRUE, FALSE, <<>>, TRUE, Hash({}), 0) }

\* after pair_raf_jpeg: one fresh record per stem
Init ==
    /\ \E n \in 1..MaxPhotos : photos = [k \in 1..n |-> PhotoInfo(Stems[k])]
    /\ pre = photos
    /\ ai_mode \in BOOLEAN
    /\ pc = "analyze"
    /\ idx = 1
    /\ dry_run = FALSE
    /\ sidecars = [st \in {Stems[k] : k \in 1..Len(Stems)} |-> NoFile]
    /\ written = 0
    /\ log = <<>>
    /\ decoded = <<>>
    /\ failed = <<>>
    /\ reply = NoReply
    /\ _face_mesh = NoMesh
    /\ _init_failed = FALSE
    /\ uploaded_log = {}
    /\ skip_existing = FALSE
    /\ returned = <<0, 0>>
    /\ mediapipe \in BOOLEAN
    /\ folder = <<>>

\* the loop left after its first iteration
AnalyzePhotoLeavesEarly ==
    /\ pc = "analyze" /\ ~ai_mode
    /\ \E w \in Worlds :
          LET r == AnalyzeWithMesh(photos[idx], w, _face_mesh, _init_failed, mediapipe)
          IN  /\ photos' = [photos EXCEPT ![idx] = r.photo]
              /\ _face_mesh' = r._face_mesh
              /\ _init_failed' = r._init_failed
              /\ decoded' = Append(decoded, w.loaded)
    /\ pre' = photos
    /\ idx' = idx + 1
    /\ pc' = "duplicates"
    /\ log' = Append(log, Call("analyze_photo", idx))
    /\ UNCHANGED <<ai_mode, dry_run, sidecars, written, failed, reply, mediapipe, folder,
                   uploaded_log, skip_existing, returned>>

\* one iteration of the loop "for i, photo in enumerate(photos): analyze_photo(photo)"
AnalyzePhoto ==
    /\ pc = "analyze" /\ ~ai_mode
    /\ \E w \in Worlds :
          LET r == AnalyzeWithMesh(photos[idx], w, _face_mesh, _init_failed, mediapipe)
          IN  /\ photos' = [photos EXCEPT ![idx] = r.photo]
              /\ _face_mesh' = r._face_mesh
              /\ _init_failed' = r._init_failed
              /\ decoded' = Append(decoded, w.loaded)
    /\ pre' = photos
    /\ idx' = idx + 1
    /\ pc' = IF idx = Len(photos) THEN "duplicates" ELSE "analyze"
    /\ log' = Append(log, Call("analyze_photo", idx))
    /\ UNCHANGED <<ai_mode, dry_run, sidecars, written, failed, reply, mediapipe, folder,
                   uploaded_log, skip_existing, returned>>

\* one iteration of the AI loop: analyze_photo_ai, then dHash and timestamp;
\* an exception out of analyze_photo_ai ends process_folder
AnalyzePhotoAi ==
    /\ pc = "analyze" /\ ai_mode
    /\ \E answer \in AiReplies, w \in AiWorlds :
          LET r == analyze_photo_ai(photos[idx], answer)
          IN  /\ decoded' = Append(decoded, w.loaded)
              /\ failed' = Append(failed, answer.kind \in AiFailures)
              /\ IF r.raised
                 THEN /\ photos' = [photos EXCEPT ![idx] = r.photo]
                      /\ pc' = "crashed"
                      /\ idx' = idx
                 ELSE /\ photos' = [photos EXCEPT ![idx] = HashAndTimestamp(r.photo, w)]
                      /\ pc' = (IF idx = Len(photos) THEN "duplicates" ELSE "analyze")
                      /\ idx' = idx + 1
    /\ pre' = photos
    /\ log' = Append(log, Call("analyze_photo_ai", idx))
    /\ UNCHANGED <<ai_mode, dry_run, sidecars, written, reply,
                   _face_mesh, _init_failed, mediapipe, folder, uploaded_log, skip_existing, returned>>

\* step 4: photos = find_duplicate_groups(photos)
Duplicates ==
    /\ pc = "duplicates"
    /\ pre' = photos
    /\ photos' = find_duplicate_groups(photos)
    /\ pc' = "series"
    /\ log' = Append(log, Call("find_duplicate_groups", 0))
    /\ UNCHANGED <<ai_mode, idx, dry_run, sidecars, written, decoded, failed, reply,
                   _face_mesh, _init_failed, mediapipe, folder, uploaded_log, skip_existing, returned>>

\* step 5: photos = group_into_series(photos)
Series ==
    /\ pc = "series"
    /\ pre' = photos
    /\ photos' = group_into_series(photos)
    /\ pc' = "rate"
    /\ log' = Append(log, Call("group_into_series", 0))
    /\ UNCHANGED <<ai_mode, idx, dry_run, sidecars, written, decoded, failed, reply,
                   _face_mesh, _init_failed, mediapipe, folder, uploaded_log, skip_existing, returned>>

\* step 6: photos = rate_photos(photos, ai_mode=ai_cull)
RatePhotos ==
    /\ pc = "rate"
    /\ pre' = photos
    /\ photos' = rate_photos(photos, ai_mode)
    /\ pc' = "write"
    /\ log' = Append(log, Call("rate_photos", 0))
    /\ UNCHANGED <<ai_mode, idx, dry_run, sidecars, written, decoded, failed, reply,
                   _face_mesh, _init_failed, mediapipe, folder, uploaded_log, skip_existing, returned>>

\* step 7: written = write_all_xmp(photos, dry_run=dry_run); dry_run is read
\* here for the first time
WriteAllXmp ==
    /\ pc = "write"
    /\ \E dry \in BOOLEAN, outcomes \in [1..Len(photos) -> WriteOutcomes] :
          /\ dry => \A k \in 1..Len(photos) : outcomes[k] = "ok"
          /\ LET r == write_all_xmp(photos, 1,
                                    [files |-> sidecars, written |-> 0, calls |-> <<>>],
                                    dry, outcomes)
             IN  /\ dry_run' = dry
                 /\ sidecars' = r.files
                 /\ written' = r.written
    /\ pre' = photos
    /\ pc' = "done"
    /\ log' = Append(log, Call("write_all_xmp", 0))
    /\ UNCHANGED <<photos, ai_mode, idx, decoded, failed, reply,
                   _face_mesh, _init_failed, mediapipe, folder,
                   uploaded_log, skip_existing, returned>>

Next ==
    \/ AnalyzePhoto
    \/ AnalyzePhotoAi
    \/ Duplicates
    \/ Series
    \/ RatePhotos
    \/ WriteAllXmp

Spec == Init /\ [][Next]_vars

\* --------------------------------------- find_photos and pair_raf_jpeg

JPEG_EXTENSIONS == {".jpg", ".jpeg"}
RAW_EXTENSIONS == {".raf"}

\* a path is <<stem, suffix>>; None is no path
NoPath == <<>>

\* suffix.lower() that leaves the suffix as it is
LowerAsIs(suffix) == suffix

\* suffix.lower()
Lower(suffix) ==
    CASE suffix = ".JPG" -> ".jpg"
      [] suffix = ".RAF" -> ".raf"
      [] OTHER -> suffix

\* the names a folder can hold, in the order sorted() gives them
FolderNames ==
    << <<"a", ".JPG">>, <<"a", ".RAF">>, <<"a", ".jpeg">>, <<"a", ".jpg">>, <<"a", ".png">>,
       <<"a", ".raf">>,
       <<"b", ".JPG">>, <<"b", ".RAF">>, <<"b", ".jpeg">>, <<"b", ".jpg">>, <<"b", ".png">>,
       <<"b", ".raf">> >>

\* find_photos: the files of the folder with a supported suffix, sorted
find_photos(names) ==
    SelectSeq(FolderNames,
              LAMBDA f : f \in names /\ Lower(f[2]) \in JPEG_EXTENSIONS \cup RAW_EXTENSIONS)

\* pair_raf_jpeg: by_stem[stem][ext] is the last file of that stem and lowered
\* suffix; first is the extension the loop over the set JPEG_EXTENSIONS meets
\* first; a stem without JPEG and RAF gives no record
pair_raf_jpeg(files, first) ==
    LET by_stem(stem, ext) ==
            LET at == { i \in 1..Len(files) : files[i][1] = stem /\ Lower(files[i][2]) = ext }
            IN  IF at = {} THEN NoPath
                ELSE files[CHOOSE i \in at : \A j \in at : j <= i]
        stems == SelectSeq(Stems, LAMBDA st : \E i \in 1..Len(files) : files[i][1] = st)
        pair(stem) ==
            LET jpeg_path == IF by_stem(stem, first) # NoPath THEN by_stem(stem, first)
                             ELSE by_stem(stem, CHOOSE e \in JPEG_EXTENSIONS : e # first)
                raf_path == by_stem(stem, CHOOSE e \in RAW_EXTENSIONS : TRUE)
            IN  [ path |-> IF jpeg_path # NoPath THEN jpeg_path ELSE raf_path,
                  jpeg_path |-> jpeg_path,
                  raf_path |-> raf_path ] @@ PhotoInfo(stem)
    IN  SelectSeq([k \in 1..Len(stems) |-> pair(stems[k])], LAMBDA p : p.path # NoPath)

MaxFolderFiles == 4

\* a folder of at most MaxFolderFiles files
InitPair ==
    /\ folder \in { names \in SUBSET { FolderNames[i] : i \in 1..Len(FolderNames) } :
                      Cardinality(names) <= MaxFolderFiles }
    /\ photos = <<>>
    /\ pre = photos
    /\ ai_mode = FALSE
    /\ pc = "folder"
    /\ idx = 0
    /\ dry_run = FALSE
    /\ sidecars = [st \in {Stems[k] : k \in 1..Len(Stems)} |-> NoFile]
    /\ written = 0
    /\ log = <<>>
    /\ decoded = <<>>
    /\ failed = <<>>
    /\ reply = NoReply
    /\ _face_mesh = NoMesh
    /\ _init_failed = FALSE
    /\ uploaded_log = {}
    /\ skip_existing = FALSE
    /\ returned = <<0, 0>>
    /\ mediapipe = TRUE

\* process_folder, steps 1 and 2: files = find_photos(folder);
\* photos = pair_raf_jpeg(files)
FindAndPair ==
    /\ pc = "folder"
    /\ \E first \in JPEG_EXTENSIONS : photos' = pair_raf_jpeg(find_photos(folder), first)
    /\ pre' = photos
    /\ pc' = "paired"
    /\ UNCHANGED <<ai_mode, run>>

SpecPair == InitPair /\ [][FindAndPair]_vars

\* ------------------------------------- analyze_photo alone, in any order

MaxAnalyzed == 2

\* the EAR of one face's two eyes, below and at EAR_CLOSED_THRESHOLD
AnalyzeEyes == { <<l, r>> : l, r \in {EAR_CLOSED_THRESHOLD - 1, EAR_CLOSED_THRESHOLD} }

\* a file that does not load; files that load, with no face, one face and two
\* faces; a file on which detect_faces raises
AnalyzeWorlds ==
    { World(FALSE, NoImage, TRUE, FALSE, <<>>, FALSE, Hash({}), None) }
    \cup
    { World(TRUE, [sharpness |-> 900, brightness |-> 140], TRUE, FALSE, fa, FALSE, Hash({}), 0) :
        fa \in {<<>>} \cup { <<e>> : e \in AnalyzeEyes }
                     \cup { <<e, g>> : e \in AnalyzeEyes, g \in AnalyzeEyes } }
    \cup
    { World(TRUE, [sharpness |-> 900, brightness |-> 140], TRUE, TRUE, <<>>, FALSE, Hash({}), 0) }

\* fresh records after pair_raf_jpeg, the file of each, and whether mediapipe
\* gives a FaceMesh in this process
InitAnalyze ==
    /\ \E n \in 1..MaxAnalyzed : photos = [k \in 1..n |-> PhotoInfo(Stems[k])]
    /\ folder \in [1..Len(photos) -> AnalyzeWorlds]
    /\ mediapipe \in BOOLEAN
    /\ pre = photos
    /\ ai_mode = FALSE
    /\ pc = "analysis"
    /\ idx = 0
    /\ dry_run = FALSE
    /\ sidecars = [st \in {Stems[k] : k \in 1..Len(Stems)} |-> NoFile]
    /\ written = 0
    /\ log = <<>>
    /\ decoded = <<>>
    /\ failed = <<>>
    /\ reply = NoReply
    /\ _face_mesh = NoMesh
    /\ _init_failed = FALSE
    /\ uploaded_log = {}
    /\ skip_existing = FALSE
    /\ returned = <<0, 0>>

\* analyze_photo(photo) on any photo not analysed yet
AnalyzeAny ==
    /\ pc = "analysis"
    /\ \E k \in 1..Len(photos) :
          /\ \A i \in 1..Len(log) : log[i].k # k
          /\ LET r == AnalyzeWithMesh(photos[k], folder[k], _face_mesh, _init_failed, mediapipe)
             IN  /\ photos' = [photos EXCEPT ![k] = r.photo]
                 /\ _face_mesh' = r._face_mesh
                 /\ _init_failed' = r._init_failed
                 /\ log' = Append(log, [ op |-> "analyze_photo", k |-> k,
                                         attempted |-> r.attempted ])
          /\ idx' = k
    /\ pre' = photos
    /\ UNCHANGED <<ai_mode, pc, dry_run, sidecars, written, decoded, failed, reply,
                   mediapipe, folder,
                   uploaded_log, skip_existing, returned>>

SpecAnalyze == InitAnalyze /\ [][AnalyzeAny]_vars

\* ------------------------------------------- photo_export: the uploader

\* add_to_album sends the upload tokens in batches of 50
BatchSize == 50

\* a call of a client method or of prompt_duplicate, and what it gave
UploadCall(op, file, gave) == [op |-> op, file |-> file, gave |-> gave]

\* the "status" of an item of newMediaItemResults; a key that is absent has
\* the default status.get is given
Status(message, code) == [message |-> message, code |-> code]

\* the results of batchCreate for the upload tokens: the status code of the
\* response to the token's batch and, with 200, the status of its item. Files
\* are numbered and the token of a file is its number; env.bad is the one
\* file of the call that the prompt, the upload or batchCreate may treat
\* differently, env.non200 the batch that fails
Results(upload_tokens, env) ==
    [ p \in 1..Len(upload_tokens) |->
        [ status_code |-> IF (p - 1) \div BatchSize + 1 = env.non200 THEN 500 ELSE 200,
          status |-> IF upload_tokens[p] = env.bad THEN env.status
                     ELSE IF upload_tokens[p] % 2 = 0 THEN Status("", 0)
                     ELSE Status("Success", -1) ] ]

\* add_to_album that counts positions within the batch
add_to_albumInBatch(upload_tokens, results) ==
    UNION { { j : j \in { k \in 0..(BatchSize - 1) :
                            /\ i + k < Len(upload_tokens)
                            /\ results[i + k + 1].status_code = 200
                            /\ \/ results[i + k + 1].status.message \in {"Success", "OK"}
                               \/ results[i + k + 1].status.code = 0 } } :
            i \in { b * BatchSize : b \in 0..(Len(upload_tokens) \div BatchSize) } }

\* add_to_album: the indices, from 0, of the tokens whose batch answered 200
\* and whose item has a status with message "Success" or "OK" or with code 0
add_to_album(upload_tokens, results) ==
    UNION { { i + j : j \in { k \in 0..(BatchSize - 1) :
                            /\ i + k < Len(upload_tokens)
                            /\ results[i + k + 1].status_code = 200
                            /\ \/ results[i + k + 1].status.message \in {"Success", "OK"}
                               \/ results[i + k + 1].status.code = 0 } } :
            i \in { b * BatchSize : b \in 0..(Len(upload_tokens) \div BatchSize) } }

\* the loop of process_folder over the files, from the i-th on; st holds
\* skipped, upload_tokens, uploaded_files, the calls made and whether
\* upload_file raised. A skip at the prompt that uploads all the same
RECURSIVE UploadLoopSkipUploads(_, _, _, _, _)
UploadLoopSkipUploads(files, i, st, remote_items, env) ==
    IF i > Len(files) \/ st.raised THEN st
    ELSE LET f == files[i]
             choice == IF f \in remote_items THEN env.prompt ELSE "none"
             asked == IF f \in remote_items
                      THEN Append(st.calls, UploadCall("prompt_duplicate", f, choice))
                      ELSE st.calls
             next == CHOOSE r \in {
                 IF choice = "n_empty"
                 THEN [st EXCEPT !.skipped = @ + 1, !.calls = asked]
                 ELSE LET removed == IF choice = "r"
                                     THEN Append(asked, UploadCall("remove_from_album", f, ""))
                                     ELSE asked
                          gave == IF f = env.bad THEN env.upload ELSE "token"
                      IN  [ skipped |-> IF choice = "s" THEN st.skipped + 1 ELSE st.skipped,
                            upload_tokens |-> IF gave = "token" THEN Append(st.upload_tokens, f)
                                              ELSE st.upload_tokens,
                            uploaded_files |-> IF gave = "token" THEN Append(st.uploaded_files, f)
                                               ELSE st.uploaded_files,
                            calls |-> Append(removed, UploadCall("upload_file", f, gave)),
                            raised |-> gave = "raises" ] } : TRUE
         IN  UploadLoopSkipUploads(files, i + 1, next, remote_items, env)

\* the loop of process_folder over the files, from the i-th on; st holds
\* skipped, upload_tokens, uploaded_files, the calls made and whether
\* upload_file raised
RECURSIVE UploadLoop(_, _, _, _, _)
UploadLoop(files, i, st, remote_items, env) ==
    IF i > Len(files) \/ st.raised THEN st
    ELSE LET f == files[i]
             choice == IF f \in remote_items THEN env.prompt ELSE "none"
             asked == IF f \in remote_items
                      THEN Append(st.calls, UploadCall("prompt_duplicate", f, choice))
                      ELSE st.calls
             next == CHOOSE r \in {
                 IF choice \in {"s", "n_empty"}
                 THEN [st EXCEPT !.skipped = @ + 1, !.calls = asked]
                 ELSE LET removed == IF choice = "r"
                                     THEN Append(asked, UploadCall("remove_from_album", f, ""))
                                     ELSE asked
                          gave == IF f = env.bad THEN env.upload ELSE "token"
                      IN  [ skipped |-> st.skipped,
                            upload_tokens |-> IF gave = "token" THEN Append(st.upload_tokens, f)
                                              ELSE st.upload_tokens,
                            uploaded_files |-> IF gave = "token" THEN Append(st.uploaded_files, f)
                                               ELSE st.uploaded_files,
                            calls |-> Append(removed, UploadCall("upload_file", f, gave)),
                            raised |-> gave = "raises" ] } : TRUE
         IN  UploadLoop(files, i + 1, next, remote_items, env)

\* process_folder of the uploader: what it returns (no value when upload_file
\* raised), the log it leaves and the calls it made
process_folder(files, logged, skip, dry, can_read_library, env) ==
    LET new_files == IF skip THEN SelectSeq(files, LAMBDA f : f \notin logged) ELSE files
        skipped == IF skip THEN Len(files) - Len(new_files) ELSE 0
        Return(uploaded, n, paths, calls) ==
            [ returned |-> <<uploaded, n>>, uploaded_log |-> paths, calls |-> calls,
              raised |-> FALSE ]
    IN  IF Len(files) = 0 THEN Return(0, 0, logged, <<>>)
        ELSE IF Len(new_files) = 0 \/ dry THEN Return(0, skipped, logged, <<>>)
        ELSE LET album == <<UploadCall("get_or_create_album", 0, "")>>
                 listed == IF can_read_library
                           THEN Append(album, UploadCall("list_album_items", 0, ""))
                           ELSE album
                 remote_items == IF can_read_library /\ env.prompt # "none"
                                 THEN {env.bad} ELSE {}
                 st == CHOOSE r \in { UploadLoop(new_files, 1,
                                          [ skipped |-> skipped, upload_tokens |-> <<>>,
                                            uploaded_files |-> <<>>, calls |-> listed,
                                            raised |-> FALSE ],
                                          remote_items, env) } : TRUE
                 results == CHOOSE r \in { Results(st.upload_tokens, env) } : TRUE
                 success_indices == CHOOSE r \in { add_to_album(st.upload_tokens, results) } : TRUE
             IN  IF st.raised
                 THEN [ returned |-> <<>>, uploaded_log |-> logged, calls |-> st.calls,
                        raised |-> TRUE ]
                 ELSE IF Len(st.upload_tokens) = 0
                 THEN Return(0, st.skipped, logged, st.calls)
                 ELSE Return(Cardinality(success_indices), st.skipped,
                             logged \cup { st.uploaded_files[x + 1] : x \in success_indices },
                             Append(st.calls, UploadCall("add_to_album", 0, results)))

\* the file of another folder
Elsewhere == 0

Env(bad, prompt, upload, status, non200) ==
    [ bad |-> bad, prompt |-> prompt, upload |-> upload, status |-> status, non200 |-> non200 ]

\* what a call can meet: nothing, or one file, the first, the second or the
\* first of the second batch, is in the album already, with each answer at
\* the prompt, or fails to upload, or fails in batchCreate, alone or after a
\* replace or a rename; or a batch is not answered with 200
UploadEnvs ==
    { Env(b, p, "token", Status("OK", -1), 0) :
        b \in {1, 2, BatchSize + 1}, p \in {"none", "s", "r", "n", "n_empty"} }
    \cup
    { Env(b, "none", u, Status("OK", -1), 0) :
        b \in {1, 2, BatchSize + 1}, u \in {"none", "raises"} }
    \cup
    { Env(b, p, "token", Status("FAIL", 3), 0) :
        b \in {1, 2, BatchSize + 1}, p \in {"none", "r", "n"} }
    \cup
    { Env(b, "none", "token", st, n) :
        b \in {BatchSize + 1}, st \in {Status("OK", -1), Status("FAIL", 3)}, n \in 1..2 }

MaxUploadCalls == 2

\* an empty folder, one of two files, one of a batch and a file; an upload
\* log that is empty or holds the first file and a file of another folder
InitUpload ==
    /\ folder \in { [k \in 1..n |-> k] : n \in {0, 2, BatchSize + 1} }
    /\ uploaded_log \in { {}, {Elsewhere, 1} }
    /\ skip_existing = FALSE
    /\ returned = <<0, 0>>
    /\ photos = <<>>
    /\ pre = photos
    /\ ai_mode = FALSE
    /\ pc = "upload"
    /\ idx = 0
    /\ dry_run = FALSE
    /\ sidecars = [st \in {Stems[k] : k \in 1..Len(Stems)} |-> NoFile]
    /\ written = 0
    /\ log = <<>>
    /\ decoded = <<>>
    /\ failed = <<>>
    /\ reply = NoReply
    /\ _face_mesh = NoMesh
    /\ _init_failed = FALSE
    /\ mediapipe = TRUE

\* process_folder(client, folder, existing_albums, uploaded_log,
\* skip_existing, dry_run, can_read_library); idx counts the calls, log holds
\* the calls the last one made
ProcessFolder ==
    /\ pc \in {"upload", "returned"}
    /\ idx < MaxUploadCalls
    /\ \E skip \in BOOLEAN, dry \in BOOLEAN, can_read_library \in BOOLEAN, env \in UploadEnvs :
          \E r \in { process_folder(folder, uploaded_log, skip, dry, can_read_library, env) } :
              /\ returned' = r.returned
              /\ uploaded_log' = r.uploaded_log
              /\ log' = r.calls
              /\ pc' = IF r.raised THEN "raised" ELSE "returned"
              /\ skip_existing' = skip
              /\ dry_run' = dry
    /\ idx' = idx + 1
    /\ UNCHANGED <<photos, pre, ai_mode, sidecars, written, decoded, failed, reply,
                   _face_mesh, _init_failed, mediapipe, folder>>

SpecUpload == InitUpload /\ [][ProcessFolder]_vars

\* ------------------------------------------------------ rating engine claims

\* apply_rating (or rate_photos) has returned for the records of photos
Rated == pc \in {"rated", "write", "done"}

\* the conditions of the four hard rules, on a rated record
LowSharpness(p) == p.sharpness < SHARPNESS_TERRIBLE
EyesClosedRule(p) == p.all_eyes_closed /\ ~ai_mode
WorstDuplicate(p) == p.is_worst_duplicate
BestOfSeries(p) ==
    /\ p.is_best_in_series
    /\ p.face_count > 0
    /\ ~p.all_eyes_closed
    /\ p.composite_score >= HARD_RULE_5_MIN_SCORE * ScoreUnit
NoHardRule(p) == ~LowSharpness(p) /\ ~EyesClosedRule(p) /\ ~WorstDuplicate(p) /\ ~BestOfSeries(p)

\* C1: rating and rating_reason of a rated record are those of the earliest
\* rule, in the order low sharpness, eyes closed (non-AI only), worst
\* duplicate, best in series, soft bands, whose condition holds.
C1_PriorityChain ==
    Rated => \A k \in 1..Len(photos) :
        LET p == photos[k] IN
        /\ LowSharpness(p) =>
              p.rating = 1 /\ p.rating_reason = HardReason("hard: low sharpness")
        /\ ~LowSharpness(p) /\ EyesClosedRule(p) =>
              p.rating = 1 /\ p.rating_reason = HardReason("hard: all eyes closed")
        /\ ~LowSharpness(p) /\ ~EyesClosedRule(p) /\ WorstDuplicate(p) =>
              p.rating = 1 /\ p.rating_reason = HardReason("hard: worst duplicate")
        /\ ~LowSharpness(p) /\ ~EyesClosedRule(p) /\ ~WorstDuplicate(p) /\ BestOfSeries(p) =>
              /\ p.rating = 5
              /\ p.rating_reason = HardReason("hard: best in series + faces + eyes open + high score")
        /\ NoHardRule(p) =>
              p.rating \in 2..5 /\ p.rating_reason.text = "soft: score"

\* a worst duplicate that also satisfies the rating-5 rule was rated 1
C1_Witness ==
    /\ Rated
    /\ \E k \in 1..Len(photos) :
          /\ ~LowSharpness(photos[k]) /\ ~EyesClosedRule(photos[k])
          /\ WorstDuplicate(photos[k]) /\ BestOfSeries(photos[k])
          /\ photos[k].rating = 1

\* C2: a rated record has rating 1 exactly when one of the three hard
\* failures holds; without them the rating is at least 2 even at composite 0.
C2_OneOnlyFromHardFailure ==
    Rated => \A k \in 1..Len(photos) :
        LET p == photos[k] IN
        /\ p.rating = 1 <=> (LowSharpness(p) \/ EyesClosedRule(p) \/ WorstDuplicate(p))
        /\ ~(LowSharpness(p) \/ EyesClosedRule(p) \/ WorstDuplicate(p)) => p.rating >= 2

\* a record without hard failure and with composite score 0.0 was rated 2
C2_Witness ==
    /\ Rated
    /\ \E k \in 1..Len(photos) :
          /\ ~LowSharpness(photos[k]) /\ ~EyesClosedRule(photos[k]) /\ ~WorstDuplicate(photos[k])
          /\ photos[k].composite_score = 0
          /\ photos[k].rating = 2

\* C3: a record with all eyes closed, sharpness >= 50 and not a worst
\* duplicate is rated by the soft bands in AI mode (never 1, never the
\* eyes-closed reason) and is rated 1 for closed eyes in non-AI mode.
C3_AiSkipsEyesClosed ==
    Rated => \A k \in 1..Len(photos) :
        LET p == photos[k] IN
        (p.all_eyes_closed /\ p.sharpness >= SHARPNESS_TERRIBLE /\ ~p.is_worst_duplicate) =>
            IF ai_mode
            THEN /\ p.rating # 1
                 /\ p.rating_reason.text # "hard: all eyes closed"
                 /\ p.rating_reason.text = "soft: score"
            ELSE /\ p.rating = 1
                 /\ p.rating_reason = HardReason("hard: all eyes closed")

\* an eyes-closed record with AI composite 0.7 was rated 4 in AI mode
C3_Witness ==
    /\ Rated /\ ai_mode
    /\ \E k \in 1..Len(photos) :
          /\ photos[k].all_eyes_closed
          /\ photos[k].sharpness >= SHARPNESS_TERRIBLE
          /\ ~photos[k].is_worst_duplicate
          /\ photos[k].composite_score = 70 * ScoreUnit
          /\ photos[k].rating = 4

\* C4: when no hard rule fires the rating is the band of composite_score
\* (<0.35: 2, <0.55: 3, <0.80: 4, else 5, a threshold belonging to the band
\* above it) and the reason names the score and the threshold compared.
C4_SoftBands ==
    Rated => \A k \in 1..Len(photos) :
        LET p == photos[k]
            c == p.composite_score
        IN  NoHardRule(p) =>
            /\ c < 35 * ScoreUnit =>
                  p.rating = 2 /\ p.rating_reason = Reason("soft: score", Fmt2(c), "<", 35)
            /\ 35 * ScoreUnit <= c /\ c < 55 * ScoreUnit =>
                  p.rating = 3 /\ p.rating_reason = Reason("soft: score", Fmt2(c), "<", 55)
            /\ 55 * ScoreUnit <= c /\ c < 80 * ScoreUnit =>
                  p.rating = 4 /\ p.rating_reason = Reason("soft: score", Fmt2(c), "<", 80)
            /\ 80 * ScoreUnit <= c =>
                  p.rating = 5 /\ p.rating_reason = Reason("soft: score", Fmt2(c), ">=", 80)

\* a record with composite score exactly 0.35 and no hard rule was rated 3
C4_Witness ==
    /\ Rated
    /\ \E k \in 1..Len(photos) :
          /\ NoHardRule(photos[k])
          /\ photos[k].composite_score = 35 * ScoreUnit
          /\ photos[k].rating = 3

\* the weighted sum of the current score fields under the weights of the mode
FreshComposite(p) ==
    IF ai_mode
    THEN 25 * p.sharpness_score + 15 * p.exposure_score + 20 * p.face_score
         + 20 * p.ai_score + 10 * p.uniqueness_score + 10 * p.series_score
    ELSE 35 * p.sharpness_score + 20 * p.exposure_score + 25 * p.face_score
         + 10 * p.uniqueness_score + 10 * p.series_score

\* C5: after apply_rating composite_score is the weighted sum of the current
\* score fields under the mode's weights, and the rating-5 rule and the soft
\* bands have compared that value, whatever composite_score held before.
C5_CompositeFresh ==
    Rated => \A k \in 1..Len(photos) :
        LET p == photos[k]
            c == FreshComposite(p)
        IN  /\ p.composite_score = c
            /\ p.rating_reason.text = "hard: best in series + faces + eyes open + high score"
                  => c >= 85 * ScoreUnit
            /\ p.rating_reason.text = "soft: score" =>
                  /\ p.rating_reason.score = Fmt2(c)
                  /\ p.rating = (IF c < 35 * ScoreUnit THEN 2
                                 ELSE IF c < 55 * ScoreUnit THEN 3
                                 ELSE IF c < 80 * ScoreUnit THEN 4 ELSE 5)
            /\ (p.is_best_in_series /\ p.face_count > 0 /\ ~p.all_eyes_closed
                /\ c >= 85 * ScoreUnit /\ p.rating # 1) => p.rating = 5

\* a record that held composite_score 1.0 before the call was rated 2 on a
\* fresh sum of 0.0
C5_Witness ==
    /\ Rated
    /\ \E k \in 1..Len(photos) :
          /\ pre[k].composite_score = 100 * ScoreUnit
          /\ photos[k].composite_score = 0
          /\ photos[k].rating = 2

\* -------------------------------------------------- duplicate clustering claims

\* find_duplicate_groups has returned
Clustered == pc \in {"clustered"}

\* i and j both carry a hash and the hashes are within the threshold
Near(i, j) ==
    /\ pre[i].dhash # NoHash
    /\ pre[j].dhash # NoHash
    /\ hamming_distance(pre[i].dhash, pre[j].dhash) <= 10

\* the near pairs i < j of the input
NearPairs == { q \in (1..Len(pre)) \X (1..Len(pre)) : q[1] < q[2] /\ Near(q[1], q[2]) }

\* the photos linked to a member of S by a chain of pairs of near
RECURSIVE Chained(_, _)
Chained(S, near) ==
    CHOOSE r \in
        { IF more = S THEN S ELSE Chained(more, near) :
          more \in { S \cup { j \in 1..Len(pre) :
                                 \E i \in S : <<i, j>> \in near \/ <<j, i>> \in near } } } : TRUE

\* for every photo, the cluster it belongs to
Clusters == CHOOSE cl \in { [i \in 1..Len(pre) |-> Chained({i}, near)] : near \in {NearPairs} } : TRUE

\* C8: after find_duplicate_groups two photos carry the same non-negative
\* duplicate_group exactly when both have a hash and a chain of hashed photos
\* with consecutive Hamming distance <= 10 links them.
C8_TransitiveClusters ==
    Clustered => \A cl \in {Clusters} : \A i, j \in 1..Len(photos) :
        i # j =>
            ( (photos[i].duplicate_group = photos[j].duplicate_group /\ photos[i].duplicate_group >= 0)
              <=> (pre[i].dhash # NoHash /\ pre[j].dhash # NoHash /\ j \in cl[i]) )

\* A near B, B near C, A not near C, and the three share one group
C8_Witness ==
    /\ Clustered
    /\ \E a, b, c \in 1..Len(photos) :
          /\ Near(a, b) /\ Near(b, c) /\ ~Near(a, c)
          /\ pre[a].dhash # NoHash /\ pre[c].dhash # NoHash
          /\ photos[a].duplicate_group >= 0
          /\ photos[a].duplicate_group = photos[b].duplicate_group
          /\ photos[b].duplicate_group = photos[c].duplicate_group

\* C9: every cluster of two or more photos has exactly one member marked
\* is_worst_duplicate; it has the lowest raw sharpness of the cluster and
\* uniqueness_score 0.3; the others keep 1.0 and are not marked.
C9_OneWorstPerCluster ==
    Clustered => \A cl \in {Clusters} : \A i \in 1..Len(photos) :
        Cardinality(cl[i]) >= 2 =>
            LET worst == { j \in cl[i] : photos[j].is_worst_duplicate }
            IN  /\ Cardinality(worst) = 1
                /\ \A w \in worst : \A j \in cl[i] : pre[w].sharpness <= pre[j].sharpness
                /\ \A j \in cl[i] :
                      photos[j].uniqueness_score = (IF j \in worst THEN Score(30) ELSE Score(100))

\* a cluster of three with differing sharpness has its single worst member
C9_Witness ==
    /\ Clustered
    /\ \E i \in 1..Len(photos) :
          /\ Cardinality(Clusters[i]) >= 3
          /\ \E j \in Clusters[i] : pre[j].sharpness > pre[i].sharpness
          /\ photos[i].is_worst_duplicate
          /\ photos[i].uniqueness_score = Score(30)
          /\ \A j \in Clusters[i] \ {i} : ~photos[j].is_worst_duplicate

\* C10: a photo without a hash, or alone in its cluster, is left exactly as
\* it was (duplicate_group -1, not worst, uniqueness 1.0, no field changed);
\* with fewer than 2 photos or fewer than 2 hashed photos nothing changes.
C10_UntouchedOutsideClusters ==
    Clustered => \A cl \in {Clusters} :
        /\ \A i \in 1..Len(photos) :
              (pre[i].dhash = NoHash \/ cl[i] = {i}) =>
                  /\ photos[i] = pre[i]
                  /\ photos[i].duplicate_group = -1
                  /\ ~photos[i].is_worst_duplicate
                  /\ photos[i].uniqueness_score = Score(100)
        /\ (Len(pre) < 2 \/ Cardinality({i \in 1..Len(pre) : pre[i].dhash # NoHash}) < 2) =>
              photos = pre

\* next to a cluster that was marked, a photo without hash and a hashed
\* photo alone in its cluster were left as they were
C10_Witness ==
    /\ Clustered
    /\ \E i, j, k \in 1..Len(photos) :
          /\ photos[i].duplicate_group >= 0
          /\ pre[j].dhash = NoHash /\ photos[j] = pre[j]
          /\ pre[k].dhash # NoHash /\ Clusters[k] = {k} /\ photos[k] = pre[k]

\* ------------------------------------------------------------ pipeline claims

\* C6: in every state of a process_folder run, from the creation of the
\* records to the end, every record has a rating in 1..5.
C6_RatingInRange ==
    \A k \in 1..Len(photos) : photos[k].rating \in 1..5

\* a finished run in which one photo was rated 1 and another 5
C6_Witness ==
    /\ pc = "done"
    /\ \E k, l \in 1..Len(photos) : photos[k].rating = 1 /\ photos[l].rating = 5

\* C7: after a full run in either mode every normalized score of every
\* record lies in [0.0, 1.0], and so does composite_score.
C7_ScoresInUnitRange ==
    pc = "done" => \A k \in 1..Len(photos) :
        /\ photos[k].sharpness_score \in 0..ScoreUnit
        /\ photos[k].exposure_score \in 0..ScoreUnit
        /\ photos[k].face_score \in 0..ScoreUnit
        /\ photos[k].uniqueness_score \in 0..ScoreUnit
        /\ photos[k].series_score \in 0..ScoreUnit
        /\ photos[k].ai_score \in 0..ScoreUnit
        /\ photos[k].composite_score \in 0..(100 * ScoreUnit)

\* ------------------------------------------------------- burst segmentation

Grouped == pc = "grouped"

\* the photos that have a timestamp, and their timestamps
TimedPhotos == { i \in 1..Len(pre) : pre[i].timestamp # None }

Stamps == { pre[i].timestamp : i \in TimedPhotos }

\* every gap between consecutive timestamps from lo to hi is within the limit
NoCutBetween(lo, hi) ==
    \A t1, t2 \in Stamps :
        (/\ lo <= t1 /\ t1 < t2 /\ t2 <= hi
         /\ ~\E t \in Stamps : t1 < t /\ t < t2)
        => t2 - t1 <= SERIES_GAP_SECONDS

RunMates(i, j) ==
    IF pre[i].timestamp <= pre[j].timestamp
    THEN NoCutBetween(pre[i].timestamp, pre[j].timestamp)
    ELSE NoCutBetween(pre[j].timestamp, pre[i].timestamp)

InRun(i) == i \in TimedPhotos /\ \E j \in TimedPhotos \ {i} : RunMates(i, j)

SeriesIds == { photos[i].series_group : i \in 1..Len(photos) } \ {-1}

\* C11: group_into_series cuts the timed photos, in ascending timestamp order,
\* at every gap larger than SERIES_GAP_SECONDS: two timed photos share a
\* non-negative series_group exactly when no gap between them exceeds the limit
\* (a gap equal to the limit does not cut), a photo is in a series exactly when
\* its run has two members or more, and the series ids are 0, 1, 2, ... in
\* chronological order.
C11_RunsAtGaps ==
    Grouped =>
        /\ \A i \in TimedPhotos : \A j \in TimedPhotos \ {i} :
              (/\ photos[i].series_group >= 0
               /\ photos[i].series_group = photos[j].series_group)
              <=> RunMates(i, j)
        /\ \A i \in TimedPhotos : photos[i].series_group >= 0 <=> InRun(i)
        /\ SeriesIds = 0..(Cardinality(SeriesIds) - 1)
        /\ \A i \in TimedPhotos : \A j \in TimedPhotos :
              (0 <= photos[i].series_group /\ photos[i].series_group < photos[j].series_group)
              => pre[i].timestamp < pre[j].timestamp

\* two series out of photos that are not in timestamp order in the list, one of
\* them held together by a gap of exactly the limit
C11_Witness ==
    /\ Grouped
    /\ SeriesIds = {0, 1}
    /\ \E i \in TimedPhotos : \E j \in TimedPhotos :
          /\ i < j
          /\ pre[i].timestamp - pre[j].timestamp = SERIES_GAP_SECONDS
          /\ photos[i].series_group = photos[j].series_group
          /\ photos[i].series_group >= 0

SeriesMembers(g) == { i \in 1..Len(photos) : photos[i].series_group = g }

\* i comes before j in the order the photos are walked in: by timestamp, and
\* by list position among equal timestamps
WalkedBefore(i, j) ==
    \/ pre[i].timestamp < pre[j].timestamp
    \/ (pre[i].timestamp = pre[j].timestamp /\ i < j)

\* C12: after group_into_series on fresh records every series has exactly one
\* member with is_best_in_series, the one of highest raw sharpness and, among
\* equally sharp members, the first in timestamp order; it has series_score 1.0
\* and every other member of the series has 0.3.
C12_OneBestPerSeries ==
    Grouped =>
        \A g \in SeriesIds :
            /\ Cardinality({ i \in SeriesMembers(g) : photos[i].is_best_in_series }) = 1
            /\ \A i \in SeriesMembers(g) :
                  IF photos[i].is_best_in_series
                  THEN /\ photos[i].series_score = Score(100)
                       /\ \A l \in SeriesMembers(g) \ {i} :
                             \/ pre[l].sharpness < pre[i].sharpness
                             \/ (pre[l].sharpness = pre[i].sharpness /\ WalkedBefore(i, l))
                  ELSE photos[i].series_score = Score(30)

\* a series whose two sharpest members are equally sharp, the earlier of them
\* later in the list, and a less sharp third member
C12_Witness ==
    /\ Grouped
    /\ \E g \in SeriesIds : \E i \in SeriesMembers(g) : \E j \in SeriesMembers(g) :
          /\ i < j
          /\ pre[j].timestamp < pre[i].timestamp
          /\ pre[i].sharpness = pre[j].sharpness
          /\ photos[j].is_best_in_series
          /\ \E l \in SeriesMembers(g) : pre[l].sharpness < pre[j].sharpness

\* C13: group_into_series leaves every photo outside a run of two or more as it
\* was: without a timestamp or alone in its run it keeps series_group -1,
\* is_best_in_series false and series_score 0.5; with fewer than two timed photos
\* the call changes nothing at all.
C13_UntouchedOutsideRuns ==
    Grouped =>
        /\ \A i \in 1..Len(photos) :
              ~InRun(i) =>
                  /\ photos[i] = pre[i]
                  /\ photos[i].series_group = -1
                  /\ photos[i].is_best_in_series = FALSE
                  /\ photos[i].series_score = Score(50)
        /\ Cardinality(TimedPhotos) < 2 => photos = pre

\* a series next to a photo without a timestamp and a photo alone in its run
C13_Witness ==
    /\ Grouped
    /\ SeriesIds # {}
    /\ \E i \in 1..Len(photos) : pre[i].timestamp = None
    /\ \E i \in TimedPhotos : ~InRun(i)

\* ------------------------------------------------------ the stages of a run

\* the calls of a whole run, in the order of process_folder
Pipeline ==
    [k \in 1..Len(photos) |->
        Call(IF ai_mode THEN "analyze_photo_ai" ELSE "analyze_photo", k)]
    \o << Call("find_duplicate_groups", 0),
          Call("group_into_series", 0),
          Call("rate_photos", 0),
          Call("write_all_xmp", 0) >>

\* C14: in a process_folder run the stages are barriers in a fixed order: the
\* calls made so far are always the beginning of one analysis per photo, in list
\* order, then find_duplicate_groups, group_into_series, rate_photos and
\* write_all_xmp, once each; a run that ends has made exactly these calls, in
\* non-AI and in AI mode.
C14_StagesAreBarriers ==
    /\ Len(log) <= Len(Pipeline)
    /\ log = SubSeq(Pipeline, 1, Len(log))
    /\ pc = "done" => log = Pipeline
    /\ pc = "duplicates" => Len(log) = Len(photos)

\* an AI run over two photos that has written its sidecars
C14_Witness ==
    /\ pc = "done"
    /\ ai_mode
    /\ Len(photos) >= 2
    /\ Len(log) = Len(photos) + 4

\* ----------------------------------------------------------- failing files

\* the analysed photos for which load_image gave no image
Undecoded == { k \in 1..Len(decoded) : ~decoded[k] }

\* the record but for what rate_photos writes
Unrated(p) == [p EXCEPT !.composite_score = 0, !.rating = 3, !.rating_reason = NoReason]

\* C15: a file that does not decode never ends a non-AI run: analyze_photo
\* returns with every field of the record at its default (no scores, no face
\* data, no hash, no timestamp), the later stages find it so, and the run goes
\* on through the remaining photos, clustering, segmentation, rating and sidecar
\* writing.
C15_DecodeFailureIsolated ==
    ~ai_mode =>
        /\ pc # "crashed"
        /\ pc # "done" => ENABLED Next
        /\ \A k \in Undecoded :
              /\ Unrated(photos[k]) = PhotoInfo(Stems[k])
              /\ pc \in {"analyze", "duplicates", "series", "rate"}
                    => photos[k] = PhotoInfo(Stems[k])

\* a finished run whose first file did not decode although its EXIF block is
\* readable, whose second file did, and which wrote a sidecar for both
C15_Witness ==
    /\ pc = "done" /\ ~ai_mode /\ ~dry_run
    /\ Len(photos) >= 2
    /\ 1 \in Undecoded /\ 2 \notin Undecoded
    /\ photos[2].sharpness > 0 /\ photos[2].timestamp # None
    /\ written = Len(photos)
    /\ \A k \in 1..Len(photos) : sidecars[photos[k].stem] = generate_xmp(photos[k].rating)

\* ------------------------------------------------------- the scoring call

\* analyze_photo_ai has ended, by a return or by an exception
AiEnded == pc \in {"returned", "raised"}

C17_AiFailureIsolated ==
    ai_mode => pc # "crashed"

\* the field of the record the k-th assignment writes, when the object has the
\* key: the model's value, converted; when it has not: the default
Backfilled(k, default) ==
    photos[1][AiAssignments[k][1]] =
        IF AiAssignments[k][3] \in DOMAIN reply.data
        THEN Convert(AiAssignments[k][2], reply.data[AiAssignments[k][3]])
        ELSE default

\* every value of the object is a number or a boolean
WellTyped == \A k \in DOMAIN reply.data : reply.data[k].t \in {"num", "bool"}

\* C18: when the reply holds a JSON object, every missing field gets its
\* neutral default (sharpness 0.5, exposure 0.5, face_quality 0.7, face_count 0,
\* eyes_closed false, composition 0.5), every present field keeps the model's
\* value, and the record is filled from the result, raw sharpness included,
\* instead of being left as after a failed call; {} gives the six defaults.
C18_MissingFieldsBackfilled ==
    (AiEnded /\ reply.kind = "json") =>
        /\ WellTyped => pc = "returned"
        /\ pc = "returned" =>
              /\ Backfilled(1, Score(50))
              /\ Backfilled(2, Score(50))
              /\ Backfilled(3, Score(70))
              /\ Backfilled(4, 0)
              /\ Backfilled(5, FALSE)
              /\ Backfilled(6, Score(50))
              /\ photos[1].sharpness * ScoreUnit = photos[1].sharpness_score * 1000
              /\ photos[1] # pre[1]
        /\ (pc = "returned" /\ DOMAIN reply.data = {}) =>
              /\ photos[1].sharpness_score = Score(50)
              /\ photos[1].exposure_score = Score(50)
              /\ photos[1].face_score = Score(70)
              /\ photos[1].face_count = 0
              /\ photos[1].all_eyes_closed = FALSE
              /\ photos[1].ai_score = Score(50)
              /\ photos[1].sharpness = 500

\* an object that has two of the six keys, both with a value of 0 or false
C18_Witness ==
    /\ pc = "returned"
    /\ reply.kind = "json"
    /\ DOMAIN reply.data = {"face_quality", "eyes_closed"}
    /\ reply.data["face_quality"] = JNum(0)
    /\ photos[1].face_score = 0
    /\ photos[1].sharpness_score = Score(50)

\* ---------------------------------------------------------------- sidecars

\* the calls of write_xmp that the last call of write_all_xmp made
LastCall ==
    CHOOSE i \in 1..Len(log) :
        /\ log[i].op = "write_all_xmp"
        /\ \A j \in (i + 1)..Len(log) : log[j].op # "write_all_xmp"

Attempts == SubSeq(log, LastCall + 1, Len(log))

\* C19: write_all_xmp calls write_xmp exactly once per record, in list order; a
\* call that raises does not keep the later records from their call; the count
\* returned is the number of records whose call did not raise, and the sidecar
\* of each of these holds the record's rating.
C19_WriteFailureIsolated ==
    log # <<>> =>
        /\ Len(Attempts) = Len(photos)
        /\ \A k \in 1..Len(photos) :
              /\ Attempts[k].op = "write_xmp"
              /\ Attempts[k].stem = photos[k].stem
              /\ Attempts[k].rating = photos[k].rating
              /\ Attempts[k].dry_run = dry_run
              /\ (~Attempts[k].raised /\ ~dry_run)
                    => sidecars[photos[k].stem] = generate_xmp(photos[k].rating)
        /\ written = Cardinality({ k \in 1..Len(photos) : ~Attempts[k].raised })

\* a call on two records or more of which the first write raised and the
\* others did not
C19_Witness ==
    /\ log # <<>>
    /\ Len(photos) >= 2
    /\ Attempts[1].raised
    /\ \A k \in 2..Len(photos) : ~Attempts[k].raised
    /\ written = Len(photos) - 1

\* the calls write_xmp(path of stem st, rating, dry_run=False) so far
RealWrites(st) ==
    { i \in WritesIn(log) : log[i].stem = st /\ ~log[i].dry_run }

LastWrite(st) == CHOOSE i \in RealWrites(st) : \A j \in RealWrites(st) : j <= i

\* C20: after any sequence of write_xmp calls with dry_run false for a stem, the
\* last of which returned, <stem>.xmp is the document with the one rating
\* written last, clamped to 1..5 (0 gives 1, 10 gives 5, 3 stays 3), whatever
\* the file held before; a stem never written for has no sidecar.
C20_LastRatingClamped ==
    \A st \in DOMAIN sidecars :
        IF RealWrites(st) = {} THEN sidecars[st] = NoFile
        ELSE ~log[LastWrite(st)].raised =>
                /\ sidecars[st].rating \in 1..5
                /\ log[LastWrite(st)].rating = 0 => sidecars[st].rating = 1
                /\ log[LastWrite(st)].rating = 10 => sidecars[st].rating = 5
                /\ log[LastWrite(st)].rating \in 1..5
                      => sidecars[st].rating = log[LastWrite(st)].rating

\* a sidecar written with 3 and then rewritten with 10
C20_Witness ==
    /\ \E i \in RealWrites("a") :
          /\ i < LastWrite("a")
          /\ ~log[i].raised /\ log[i].rating = 3
          /\ ~log[LastWrite("a")].raised /\ log[LastWrite("a")].rating = 10
    /\ sidecars["a"].rating = 5

\* -------------------------------------------------------- the rating-5 rule

\* the rating of a variant of apply_rating that has the three hard rules for 1
\* and the soft bands only
RatingWithoutRuleFive(p) ==
    IF LowSharpness(p) \/ EyesClosedRule(p) \/ WorstDuplicate(p) THEN 1
    ELSE IF p.composite_score < 35 * ScoreUnit THEN 2
    ELSE IF p.composite_score < 55 * ScoreUnit THEN 3
    ELSE IF p.composite_score < 80 * ScoreUnit THEN 4
    ELSE 5

\* C30: the hard rule for rating 5 never changes the number: in both modes
\* apply_rating gives every record the rating of the variant without that rule;
\* where the rule fires the soft bands give 5 as well, and only rating_reason
\* tells the two apart.
C30_RuleFiveKeepsRating ==
    pc = "rated" => \A k \in 1..Len(photos) :
        /\ photos[k].rating = RatingWithoutRuleFive(photos[k])
        /\ photos[k].rating_reason.text = "hard: best in series + faces + eyes open + high score"
              => photos[k].composite_score >= 80 * ScoreUnit

\* the rule fired, in AI mode, on a record the soft bands rate 5 too
C30_Witness ==
    /\ pc = "rated" /\ ai_mode
    /\ photos[1].rating = 5
    /\ photos[1].rating_reason.text = "hard: best in series + faces + eyes open + high score"
    /\ RatingWithoutRuleFive(photos[1]) = 5

\* ------------------------------------------------------------------ dry run

\* C26: a dry run writes nothing: a call of write_all_xmp with dry_run true
\* leaves every sidecar, present or absent, as it was, every call of write_xmp
\* in it returns, and the count returned is the number of photos.
C26_DryRunWritesNothing ==
    [][dry_run' =>
          /\ sidecars' = sidecars
          /\ written' = Len(photos')
          /\ \A i \in (Len(log) + 1)..Len(log') :
                log'[i].op = "write_xmp" => (log'[i].dry_run /\ ~log'[i].raised)]_vars

\* after a dry run over two photos: a sidecar of an earlier call that holds
\* another rating than the photo has now, and a photo without sidecar
C26_Witness ==
    /\ dry_run
    /\ Len(photos) = 2 /\ written = 2
    /\ sidecars["a"] \notin {NoFile, Truncated, generate_xmp(photos[1].rating)}
    /\ sidecars["b"] = NoFile

\* ------------------------------------------------- the face mesh and faces

\* the photos analyze_photo was called on
Analysed == { log[i].k : i \in 1..Len(log) }

\* C22: the face mesh is a lazily initialised singleton with a permanent
\* degraded state: over any sequence of calls FaceMesh is constructed at most
\* once and then reused, after a failed construction no later call constructs
\* again, and in that state detect_faces gives (0, 0.0, False) and does not
\* raise.
C22_MeshSingleton ==
    /\ [](Cardinality({ i \in 1..Len(log) : log[i].attempted }) <= 1)
    /\ [](~(_init_failed /\ _face_mesh # NoMesh))
    /\ [](_init_failed =>
            \A k \in Analysed : /\ photos[k].face_count = 0
                                 /\ photos[k].eyes_open_ratio = 0
                                 /\ ~photos[k].all_eyes_closed
                                 /\ photos[k].face_score = FACES_NEUTRAL_SCORE)
    /\ [][ /\ _init_failed => _init_failed'
           /\ _face_mesh # NoMesh => _face_mesh' = _face_mesh ]_vars

\* two photos with a face each were analysed after the construction failed
C22_Witness ==
    /\ _init_failed
    /\ Len(log) = 2
    /\ \A k \in 1..2 : folder[k].loaded /\ Len(folder[k].faces) > 0

\* what analyze_photo makes of a file when nothing else was ever analysed
AnalysedAlone(k) ==
    analyze_photo(PhotoInfo(Stems[k]), [folder[k] EXCEPT !.mesh = mediapipe])

EyesOf(k) ==
    IF folder[k].loaded /\ ~folder[k].faces_raise /\ _face_mesh # NoMesh
    THEN (1..Len(folder[k].faces)) \X {1, 2} ELSE {}

OpenEyesOf(k) == { e \in EyesOf(k) : folder[k].faces[e[1]][e[2]] >= EAR_CLOSED_THRESHOLD }

\* C24: after analyze_photo without AI, all_eyes_closed holds only when an eye
\* was evaluated and none reached EAR 0.20, eyes_open_ratio is the fraction of
\* the evaluated eyes that reached it, face_score is 0.7 without a face and
\* eyes_open_ratio otherwise; so all_eyes_closed implies a face and
\* face_score 0.0, and no face implies all_eyes_closed false.
C24_FaceOutputsConsistent ==
    \A k \in Analysed :
       LET p == photos[k]
       IN  /\ p.all_eyes_closed <=> (EyesOf(k) # {} /\ OpenEyesOf(k) = {})
           /\ p.eyes_open_ratio * Cardinality(EyesOf(k)) = Cardinality(OpenEyesOf(k)) * ScoreUnit
           /\ EyesOf(k) = {} => p.eyes_open_ratio = 0
           /\ p.face_count * 2 = Cardinality(EyesOf(k))
           /\ p.face_score = IF p.face_count = 0 THEN FACES_NEUTRAL_SCORE ELSE p.eyes_open_ratio
           /\ p.all_eyes_closed => p.face_count >= 1 /\ p.face_score = 0
           /\ p.face_count = 0 => ~p.all_eyes_closed

\* one photo with all eyes closed, one with an eye exactly at the threshold
C24_Witness ==
    /\ Analysed = {1, 2}
    /\ photos[1].all_eyes_closed /\ photos[1].face_count = 2
    /\ folder[2].faces = << <<EAR_CLOSED_THRESHOLD - 1, EAR_CLOSED_THRESHOLD>> >>
    /\ photos[2].eyes_open_ratio * 2 = ScoreUnit

\* ------------------------------------------------- photos without any data

\* the photos whose analysis gave no data: the image did not load, or the
\* call to the endpoint failed
WithoutData ==
    { k \in 1..Len(photos) :
        IF ai_mode THEN k <= Len(failed) /\ failed[k]
                   ELSE k <= Len(decoded) /\ ~decoded[k] }

\* C29: a photo whose analysis gave no data keeps sharpness 0.0 and the other
\* defaults until it is rated, and is rated 1 for 'hard: low sharpness'; the
\* run that ends writes that rating.
C29_NoDataRatedOne ==
    \A k \in WithoutData :
       /\ photos[k].sharpness = 0
       /\ pc \in {"write", "done"} =>
             /\ photos[k].rating = 1
             /\ photos[k].rating_reason = HardReason("hard: low sharpness")
       /\ (pc = "done" /\ ~dry_run /\ sidecars[Stems[k]] \notin {NoFile, Truncated}) =>
             sidecars[Stems[k]] = generate_xmp(1)

\* an AI run that ended: the call failed for the first photo, which is rated
\* 1, and gave scores for the second, which is rated higher
C29_Witness ==
    /\ pc = "done"
    /\ ai_mode
    /\ WithoutData = {1}
    /\ Len(photos) = 2
    /\ photos[1].rating = 1
    /\ photos[1].face_score = FACES_NEUTRAL_SCORE
    /\ photos[2].rating > 1
    /\ sidecars["a"] = generate_xmp(1)

\* ------------------------------------------------------ the sharpness score

\* C25: normalize_sharpness never decreases as the sharpness grows, the joins
\* of its segments included; it is 0.0 below 50, 0.5 at 200, 1.0 from 800 on,
\* and always within 0.0 .. 1.0.
C25_SharpnessMonotone ==
    idx > 0 =>
        LET sharpness == photos[1].sharpness
            score == photos[1].sharpness_score
        IN  /\ sharpness = idx - 1
            /\ 0 <= score /\ score <= ScoreUnit
            /\ sharpness < SHARPNESS_TERRIBLE => score = 0
            /\ sharpness = SHARPNESS_LOW => 2 * score = ScoreUnit
            /\ sharpness >= SHARPNESS_HIGH => score = ScoreUnit
            /\ idx > 1 => score >= pre[1].sharpness_score

\* the join at 800, reached from a score between 0.5 and 1.0
C25_Witness ==
    /\ idx > 1
    /\ photos[1].sharpness = SHARPNESS_HIGH
    /\ photos[1].sharpness_score = ScoreUnit
    /\ 2 * pre[1].sharpness_score > ScoreUnit
    /\ pre[1].sharpness_score < ScoreUnit

\* ------------------------------------------------------------------ pairing

\* the files of the folder that are JPEGs and RAFs whatever the case of the
\* suffix, and the stems of both
JpegFiles == { f \in folder : f[2] \in {".jpg", ".JPG", ".jpeg"} }
RafFiles == { f \in folder : f[2] \in {".raf", ".RAF"} }
PhotoStems == { f[1] : f \in JpegFiles \cup RafFiles }

\* C21: pair_raf_jpeg gives exactly one record per stem of the photo files and
\* none for anything else; a stem with a RAF and a JPEG gives one record with
\* both paths whose path is the JPEG, a stem with a RAF alone has the RAF as
\* path; no two records share a stem.
C21_OneRecordPerStem ==
    pc = "paired" =>
        /\ { photos[k].stem : k \in 1..Len(photos) } = PhotoStems
        /\ \A k, j \in 1..Len(photos) : photos[k].stem = photos[j].stem => k = j
        /\ \A k \in 1..Len(photos) :
              LET p == photos[k]
                  jpegs == { f \in JpegFiles : f[1] = p.stem }
                  rafs == { f \in RafFiles : f[1] = p.stem }
              IN  /\ IF jpegs = {} THEN p.jpeg_path = NoPath ELSE p.jpeg_path \in jpegs
                  /\ IF rafs = {} THEN p.raf_path = NoPath ELSE p.raf_path \in rafs
                  /\ p.path = IF jpegs # {} THEN p.jpeg_path ELSE p.raf_path
                  /\ p.path # NoPath
                  /\ [ f \in DOMAIN PhotoInfo(p.stem) |-> p[f] ] = PhotoInfo(p.stem)

\* a.JPG with a.RAF, b.raf alone, and a file that is no photo
C21_Witness ==
    /\ pc = "paired"
    /\ folder = { <<"a", ".JPG">>, <<"a", ".RAF">>, <<"b", ".raf">>, <<"b", ".png">> }
    /\ Len(photos) = 2
    /\ photos[1].path = <<"a", ".JPG">> /\ photos[1].raf_path = <<"a", ".RAF">>
    /\ photos[2].path = <<"b", ".raf">> /\ photos[2].jpeg_path = NoPath

\* ------------------------------------------------------------- the uploader

\* the files of the folder that skip_existing filters out of a call, and those
\* for which the prompt of the call ended in a skip or in an empty new name
Filtered(skip, logged) ==
    { folder[k] : k \in { i \in 1..Len(folder) : skip /\ folder[i] \in logged } }

Refused(calls) ==
    { calls[i].file : i \in { k \in 1..Len(calls) :
                                 /\ calls[k].op = "prompt_duplicate"
                                 /\ calls[k].gave \in {"s", "n_empty"} } }

\* C27: a call of process_folder calls upload_file for a file only if it is no
\* dry run, skip_existing did not filter the file out and the prompt for it
\* did not end in a skip or an empty new name; a dry run calls no client
\* method and returns uploaded = 0; the skipped count returned is the number
\* of files that skip_existing or the prompt excluded, each counted once.
C27_UploadOnlyWhenDue ==
    [][ \A filtered \in { Filtered(skip_existing', uploaded_log) }, refused \in { Refused(log') },
           uploads \in { { i \in 1..Len(log') : log'[i].op = "upload_file" } } :
           /\ \A i \in uploads :
                 /\ ~dry_run'
                 /\ log'[i].file \in 1..Len(folder)
                 /\ folder[log'[i].file] = log'[i].file
                 /\ log'[i].file \notin filtered
                 /\ log'[i].file \notin refused
           /\ Cardinality({ log'[i].file : i \in uploads }) = Cardinality(uploads)
           /\ dry_run' => log' = <<>> /\ pc' = "returned" /\ returned'[1] = 0
           /\ filtered \cap refused = {}
           /\ pc' = "returned" => returned'[2] = Cardinality(filtered) + Cardinality(refused) ]_vars

\* of a batch and a file, the first was filtered out, the second skipped at
\* the prompt and the others uploaded
C27_Witness ==
    /\ pc = "returned"
    /\ skip_existing /\ ~dry_run
    /\ Len(folder) = BatchSize + 1
    /\ returned = <<BatchSize - 1, 2>>
    /\ Refused(log) = {2}
    /\ Cardinality({ i \in 1..Len(log) : log[i].op = "upload_file" }) = BatchSize - 1

\* the position, from 1, of the token that the i-th call, an upload_file that
\* gave a token, added to upload_tokens
TokenPosition(calls, i) ==
    Cardinality({ k \in 1..i : calls[k].op = "upload_file" /\ calls[k].gave = "token" })

\* C28: a call of process_folder adds a path to uploaded_log only if
\* upload_file gave a token for the file and batchCreate answered 200 for the
\* batch of that token and reported success for the item at its position,
\* counted across the batches; no path leaves the log.
C28_LogsOnlyConfirmed ==
    [][ /\ uploaded_log \subseteq uploaded_log'
        /\ \A f \in uploaded_log' \ uploaded_log :
             \E i \in 1..Len(log') :
                /\ log'[i].op = "upload_file"
                /\ log'[i].file = f
                /\ log'[i].gave = "token"
                /\ log'[Len(log')].op = "add_to_album"
                /\ LET result == log'[Len(log')].gave[TokenPosition(log', i)]
                   IN  /\ result.status_code = 200
                       /\ \/ result.status.message \in {"Success", "OK"}
                          \/ result.status.code = 0 ]_vars

\* of a batch and a file all were uploaded, the first failed in batchCreate:
\* the log holds all but the first, the file of the second batch included
C28_Witness ==
    /\ pc = "returned"
    /\ Len(folder) = BatchSize + 1
    /\ returned = <<BatchSize, 0>>
    /\ uploaded_log = 2..(BatchSize + 1)
    /\ log[Len(log)].op = "add_to_album"
    /\ log[Len(log)].gave[1].status.message = "FAIL"

====
